---- MODULE Spec2Model ----
(***************************************************************************)
(* The generic command/event pipeline of catsys (createGenericHandler and  *)
(* makeHandle) over the URL-shortener domain, driven against its ports:    *)
(* a transactional store, an event bus and the optional idempotency cache. *)
(***************************************************************************)
EXTENDS Integers, Sequences, FiniteSets, TLC

\* ------------------------------------------------------------------ bounds
MaxCalls == 2        \* handle invocations a behaviour starts
MaxFaults == 1       \* port operations that fail in a behaviour
MaxTicks == 2        \* clock advances in a behaviour
MaxInFlight == 2     \* handle invocations in flight at the same time

\* ------------------------------------------------------- program constants
TTL == 3600          \* seconds: kv.set(`cmd:${cmdId}`, '1', 3600)
SliceLen == 6        \* genShort: .substring(0, 6)

Undefined == "undefined"
Null == "null"

\* The clock advances in steps of a little more than half the expiry, so
\* that one step leaves a cache entry alive and two steps expire it.
TickSeconds == (TTL \div 2) + 1

\* ------------------------------------------------------------ strings
\* A JavaScript string is named by a TLA+ string; Chars gives its UTF-16
\* code units, on which length, startsWith and the hash are computed.
Chars(str) ==
  CASE str = "" -> << >>
    [] str = "http" -> <<104, 116, 116, 112>>
    [] str = "http://a" -> <<104, 116, 116, 112, 58, 47, 47, 97>>
    [] str = "http://b" -> <<104, 116, 116, 112, 58, 47, 47, 98>>
    [] str = "k1" -> <<107, 49>>

StrLen(str) == Len(Chars(str))

StartsWith(str, prefix) ==
  /\ StrLen(prefix) <= StrLen(str)
  /\ SubSeq(Chars(str), 1, StrLen(prefix)) = Chars(prefix)

\* ToInt32(a * 31 + c) for a 32-bit signed a and a small c >= 0, computed on
\* 16-bit halves so that no intermediate value leaves the 32-bit range:
\*   hash = ((hash << 5) - hash) + char; hash = hash & hash
HashStep(a, c) ==
  LET lo == a % 65536
      hi == (a - lo) \div 65536
      t  == lo * 31 + c
      tlo == t % 65536
      carry == t \div 65536
      h16 == (hi * 31 + carry) % 65536
      hs == IF h16 >= 32768 THEN h16 - 65536 ELSE h16
  IN  hs * 65536 + tlo

\* The loop of genShort from position i on; each intermediate hash is bound
\* to its value before the next step uses it.
RECURSIVE HashFrom(_, _, _)
HashFrom(codes, i, hash) ==
  IF i > Len(codes) THEN hash
  ELSE CHOOSE r \in {HashFrom(codes, i + 1, h) : h \in {HashStep(hash, codes[i])}} : TRUE

Digit36(d) ==
  CASE d = 0 -> "0" [] d = 1 -> "1" [] d = 2 -> "2" [] d = 3 -> "3"
    [] d = 4 -> "4" [] d = 5 -> "5" [] d = 6 -> "6" [] d = 7 -> "7"
    [] d = 8 -> "8" [] d = 9 -> "9" [] d = 10 -> "a" [] d = 11 -> "b"
    [] d = 12 -> "c" [] d = 13 -> "d" [] d = 14 -> "e" [] d = 15 -> "f"
    [] d = 16 -> "g" [] d = 17 -> "h" [] d = 18 -> "i" [] d = 19 -> "j"
    [] d = 20 -> "k" [] d = 21 -> "l" [] d = 22 -> "m" [] d = 23 -> "n"
    [] d = 24 -> "o" [] d = 25 -> "p" [] d = 26 -> "q" [] d = 27 -> "r"
    [] d = 28 -> "s" [] d = 29 -> "t" [] d = 30 -> "u" [] d = 31 -> "v"
    [] d = 32 -> "w" [] d = 33 -> "x" [] d = 34 -> "y" [] d = 35 -> "z"

\* Number.prototype.toString(36) of n >= 0, as the sequence of its digits.
RECURSIVE Digits36(_)
Digits36(n) ==
  IF n < 36 THEN <<Digit36(n)>>
  ELSE Append(Digits36(n \div 36), Digit36(n % 36))

RECURSIVE Concat(_)
Concat(ds) == IF ds = << >> THEN "" ELSE Head(ds) \o Concat(Tail(ds))

\* Math.abs of a 32-bit value; -2^31 has no 32-bit negation and stays a
\* double in JavaScript, a case the model's URLs do not produce.
Abs(n) == IF n < 0 THEN 0 - n ELSE n

\* Math.abs(hash).toString(36).substring(0, 6)
Short36(hash) ==
  LET ds == Digits36(Abs(hash))
  IN  Concat(SubSeq(ds, 1, IF Len(ds) < SliceLen THEN Len(ds) ELSE SliceLen))

genShort(long) ==
  CHOOSE r \in {Short36(hash) : hash \in {HashFrom(Chars(long), 1, 0)}} : TRUE

\* ------------------------------------------------------------- the domain
\* JavaScript truthiness of an optional string.
Truthy(v) == v # Undefined /\ v # Null /\ v # ""

\* obj[key] on a Record<string, string>.
Lookup(obj, key) == IF key \in DOMAIN obj THEN obj[key] ELSE Undefined

\* { ...obj, [key]: value }
With(obj, key, value) ==
  [k \in DOMAIN obj \cup {key} |-> IF k = key THEN value ELSE obj[k]]

\* const { [key]: _, ...rest } = obj
Without(obj, key) == [k \in DOMAIN obj \ {key} |-> obj[k]]

EmptyObj == [k \in {} |-> Undefined]

s0 == [version |-> 0, byShort |-> EmptyObj, byLong |-> EmptyObj, active |-> {}]

validate(c) ==
  CASE c.kind = "Create" -> StrLen(c.long) > 0 /\ StartsWith(c.long, "http")
    [] c.kind \in {"Resolve", "Expire"} -> StrLen(c.short) > 0
    [] OTHER -> FALSE

decideOverwriting(s, c, rnd, timestamp) ==
  LET id == IF Truthy(c.id) THEN c.id ELSE rnd IN
  CASE c.kind = "Create" ->
         LET short == IF Truthy(c.custom) THEN c.custom ELSE genShort(c.long) IN
         IF Lookup(s.byShort, short) = c.long
         THEN << >>
         ELSE <<[kind |-> "Created", short |-> short, long |-> c.long,
                 userId |-> c.userId, id |-> id, timestamp |-> timestamp]>>
    [] c.kind = "Resolve" ->
         IF c.short \notin s.active THEN << >>
         ELSE <<[kind |-> "Clicked", short |-> c.short, id |-> id,
                 timestamp |-> timestamp]>>
    [] c.kind = "Expire" ->
         IF c.short \notin s.active THEN << >>
         ELSE <<[kind |-> "Expired", short |-> c.short, id |-> id,
                 timestamp |-> timestamp]>>
    [] OTHER -> << >>

\* decide(s, c), with its two impure reads made explicit: rnd is the value
\* Math.random() yields for the event id, timestamp the clock reading.
decide(s, c, rnd, timestamp) ==
  LET id == IF Truthy(c.id) THEN c.id ELSE rnd IN
  CASE c.kind = "Create" ->
         LET short == IF Truthy(c.custom) THEN c.custom ELSE genShort(c.long) IN
         IF Truthy(Lookup(s.byShort, short)) /\ Lookup(s.byShort, short) # c.long
         THEN <<[kind |-> "CustomTaken", custom |-> short, id |-> id,
                 timestamp |-> timestamp]>>
         ELSE IF Lookup(s.byShort, short) = c.long
         THEN << >>
         ELSE <<[kind |-> "Created", short |-> short, long |-> c.long,
                 userId |-> c.userId, id |-> id, timestamp |-> timestamp]>>
    [] c.kind = "Resolve" ->
         IF c.short \notin s.active THEN << >>
         ELSE <<[kind |-> "Clicked", short |-> c.short, id |-> id,
                 timestamp |-> timestamp]>>
    [] c.kind = "Expire" ->
         IF c.short \notin s.active THEN << >>
         ELSE <<[kind |-> "Expired", short |-> c.short, id |-> id,
                 timestamp |-> timestamp]>>
    [] OTHER -> << >>

evolveCounting(s, e) ==
  CASE e.kind = "Created" ->
         [version |-> s.version + 1,
          byShort |-> With(s.byShort, e.short, e.long),
          byLong |-> With(s.byLong, e.long, e.short),
          active |-> s.active \cup {e.short}]
    [] e.kind = "Expired" ->
         [version |-> s.version + 1,
          byShort |-> Without(s.byShort, e.short),
          byLong |-> Without(s.byLong, Lookup(s.byShort, e.short)),
          active |-> s.active \ {e.short}]
    [] OTHER -> [s EXCEPT !.version = @ + 1]

evolveForgetting(s, e) ==
  CASE e.kind = "Created" ->
         [version |-> s.version + 1,
          byShort |-> With(EmptyObj, e.short, e.long),
          byLong |-> With(s.byLong, e.long, e.short),
          active |-> {e.short}]
    [] e.kind = "Expired" ->
         [version |-> s.version + 1,
          byShort |-> Without(s.byShort, e.short),
          byLong |-> Without(s.byLong, Lookup(s.byShort, e.short)),
          active |-> s.active \ {e.short}]
    [] OTHER -> s

evolve(s, e) ==
  CASE e.kind = "Created" ->
         [version |-> s.version + 1,
          byShort |-> With(s.byShort, e.short, e.long),
          byLong |-> With(s.byLong, e.long, e.short),
          active |-> s.active \cup {e.short}]
    [] e.kind = "Expired" ->
         [version |-> s.version + 1,
          byShort |-> Without(s.byShort, e.short),
          byLong |-> Without(s.byLong, Lookup(s.byShort, e.short)),
          active |-> s.active \ {e.short}]
    [] OTHER -> s

\* ------------------------------------------------------------ the read model
TopN == 10           \* project: .slice(0, 10)

\* An object whose key order is observed (Object.entries) is the sequence of
\* its entries in insertion order.
HasEntry(entries, key) == \E i \in DOMAIN entries : entries[i].short = key

\* entries[key] || 0
GetEntry(entries, key) ==
  IF HasEntry(entries, key)
  THEN entries[CHOOSE i \in DOMAIN entries : entries[i].short = key].clicks
  ELSE 0

\* { ...entries, [key]: value }: an existing key keeps its place.
SetEntry(entries, key, value) ==
  IF HasEntry(entries, key)
  THEN [i \in DOMAIN entries |->
          IF entries[i].short = key THEN [short |-> key, clicks |-> value]
          ELSE entries[i]]
  ELSE Append(entries, [short |-> key, clicks |-> value])

\* const { [key]: _, ...rest } = entries
DelEntry(entries, key) == SelectSeq(entries, LAMBDA x : x.short # key)

\* One step of the stable sort by (a, b) => b.clicks - a.clicks: x goes
\* behind every element that has at least its clicks.
RECURSIVE InsertByClicks(_, _)
InsertByClicks(sorted, x) ==
  IF sorted = << >> THEN <<x>>
  ELSE IF Head(sorted).clicks >= x.clicks
       THEN <<Head(sorted)>> \o InsertByClicks(Tail(sorted), x)
       ELSE <<x>> \o sorted

RECURSIVE SortByClicks(_)
SortByClicks(entries) ==
  IF entries = << >> THEN << >>
  ELSE InsertByClicks(SortByClicks(SubSeq(entries, 1, Len(entries) - 1)),
                      entries[Len(entries)])

\* Object.entries(clicks).map(...).sort(...).slice(0, 10)
TopUrls(clicks) ==
  LET sorted == SortByClicks(clicks)
  IN SubSeq(sorted, 1, IF Len(sorted) < TopN THEN Len(sorted) ELSE TopN)

\* v0; lastUpdate is the time the module was loaded, the clock's first value.
v0 == [lastUpdate |-> "T00000", clicks |-> << >>, topUrls |-> << >>,
       urls |-> EmptyObj]

projectKeepingUrls(v, e) ==
  CASE e.kind = "Created" ->
         [v EXCEPT !.lastUpdate = e.timestamp, !.urls = With(v.urls, e.short, e.long)]
    [] e.kind = "Expired" -> [v EXCEPT !.lastUpdate = e.timestamp]
    [] OTHER -> v

project(v, e) ==
  CASE e.kind = "Clicked" ->
         LET newClicks == SetEntry(v.clicks, e.short, GetEntry(v.clicks, e.short) + 1)
         IN [v EXCEPT !.lastUpdate = e.timestamp, !.clicks = newClicks,
                      !.topUrls = TopUrls(newClicks)]
    [] e.kind = "Created" ->
         [v EXCEPT !.lastUpdate = e.timestamp,
                   !.clicks = SetEntry(v.clicks, e.short, 0),
                   !.urls = With(v.urls, e.short, e.long)]
    [] e.kind = "Expired" ->
         LET restClicks == DelEntry(v.clicks, e.short)
         IN [v EXCEPT !.lastUpdate = e.timestamp, !.clicks = restClicks,
                      !.urls = Without(v.urls, e.short),
                      !.topUrls = TopUrls(restClicks)]
    [] OTHER -> v

\* The short codes the answers are asked for.
ShortKeys == {"k1", "k2", "k3"}

\* x || null
OrNull(x) == IF Truthy(x) THEN x ELSE Null

RECURSIVE SumClicks(_)
SumClicks(entries) ==
  IF entries = << >> THEN 0 ELSE Head(entries).clicks + SumClicks(Tail(entries))

\* queries(v): each answer function as its graph over ShortKeys.
queries(v) ==
  [getClicks |-> [k \in ShortKeys |-> GetEntry(v.clicks, k)],
   getTopUrls |-> v.topUrls,
   getTotalClicks |-> SumClicks(v.clicks),
   resolveUrl |-> [k \in ShortKeys |-> OrNull(Lookup(v.urls, k))]]

deriveView(s) ==
  [getClicks |-> [k \in ShortKeys |-> 0],
   getTopUrls |-> << >>,
   getTotalClicks |-> 0,
   resolveUrl |-> [k \in ShortKeys |-> OrNull(Lookup(s.byShort, k))]]

\* f(s, e), for a reducer passed by name.
Call(f, s, e) ==
  CASE f = "evolve" -> evolve(s, e)
    [] f = "project" -> project(s, e)

foldLast(f, seed, events) ==
  IF events = << >> THEN seed ELSE Call(f, seed, events[Len(events)])

\* events.reduce(f, s0): the left fold.
RECURSIVE fold(_, _, _)
fold(f, seed, events) ==
  IF events = << >> THEN seed
  ELSE fold(f, Call(f, seed, Head(events)), Tail(events))

\* ------------------------------------------------------------- inputs
CmdIds == {"i1", "i2"}

Cmd(kind, long, custom, id) ==
  [kind |-> kind, long |-> long, custom |-> custom, userId |-> Undefined, id |-> id]

Commands ==
  {Cmd("Create", "http://a", "k1", id) : id \in CmdIds \cup {Undefined}}
  \cup {Cmd("Create", "http://b", "k1", "i1"), Cmd("Create", "http://a", Undefined, "i2"),
        Cmd("Create", "", "k1", "i1")}
  \cup [kind : {"Resolve", "Expire"}, short : {"k1"}, id : CmdIds]
  \cup {[kind |-> "Expire", short |-> "", id |-> "i2"]}

\* State snapshots a caller holds: s0 and states the pipeline has returned.
InputStates ==
  {fold("evolve", s0, h) : h \in
     { << >>,
       <<[kind |-> "Created", short |-> "k1", long |-> "http://a"]>>,
       <<[kind |-> "Created", short |-> "k1", long |-> "http://a"],
         [kind |-> "Expired", short |-> "k1"]>> }}

\* new Date().toISOString() at clock reading t: a string of fixed width
\* whose lexicographic order is the order of time.
toISOString(t) ==
  LET ds == ToString(t)
      pad == CASE t < 10 -> "0000" [] t < 100 -> "000" [] t < 1000 -> "00"
               [] t < 10000 -> "0" [] OTHER -> ""
  IN  "T" \o pad \o ds

\* Math.random().toString(36).substring(7): the n-th value drawn, each fresh.
Rnd(n) == "r" \o ToString(n)

\* ---------------------------------------------------------------- state
VARIABLES
  variant,    \* "generic": createGenericHandler.handle; "handlers": makeHandle
  hasKv,      \* deps.kv is configured
  now,        \* the clock, in seconds
  ticks,      \* clock advances so far
  faults,     \* port failures so far
  started,    \* handle invocations so far
  rnd,        \* Math.random() values drawn so far
  db,         \* the store behind deps.sql
  kv,         \* the Map of inMemoryKV
  seen,       \* globalThis.__seen
  invoked,    \* events bus.publish was invoked with, in order
  delivered,  \* events bus.publish accepted, in order
  calls,      \* the handle invocations, one per slot
  marked,     \* history: for each command id, when cmd:<id> was last written
  persistFailures, \* history: handle invocations that failed in the persist step
  noops,      \* history: command ids whose handle returned on an empty decision
  http,       \* the httpHandle invocations, one per slot
  infra,      \* a TestInfrastructure instance and its subscriber's receivedEvents
  infraOps,   \* operations called on it so far
  begun,      \* history: beginTransaction calls so far
  inc,        \* history: for each transaction id, the begin that opened it
  rolledBack, \* history: the begins whose transaction was rolled back uncommitted
  lastOp,     \* history: the last operation called on infra
  lawSpec,    \* a DomainSpec instance: its defects and its _lawsVerified flag
  verifyCalls, \* history: verifyLaws calls so far
  verifyRuns, \* history: enforceLaws runs so far
  suite,      \* the LawVerificationSuite of the last verifyAllLaws run
  raised,     \* the error of the last verifyLaws call
  checks,     \* the verifyOutboxLaw promises started, in order
  service,    \* what createGenericService gave its caller
  evs,        \* the events applied so far, in order
  st,         \* the State reached by evolve over evs
  vw,         \* the View reached by project over evs
  gate,       \* a sequence on its way, twice, through the seen-id and processed:<id> gates
  other,      \* a second service built on a store and a bus of its own
  mem,        \* the arrays and the table map of an inMemorySql instance
  stored,     \* history: the events sent to that store for its events table
  es,         \* what replay() and stateAt() of an event-sourcing handler last returned
  cq,         \* a CQRS handler on that store: its write state, its bus, its last rebuilt view
  left,       \* the collection as given to pullbackJoin
  right,      \* the collection bs given to pullbackJoin
  joined,     \* what pullbackJoin returned for them
  tele,       \* the last call made through a telemetry wrapper, and the same call made bare
  health      \* the healthCheck calls made: the probe's outcome, the clock, what was returned

infraVars == <<infra, infraOps, begun, inc, rolledBack, lastOp>>

lawVars == <<lawSpec, verifyCalls, verifyRuns, suite, raised, checks, service>>

pipelineVars == <<variant, hasKv, now, ticks, faults, started, rnd, db, kv, seen,
                  invoked, delivered, calls, marked, persistFailures, noops, http>>

foldVars == <<evs, st, vw>>

gateVars == <<gate>>

tenantVars == <<other>>

storeVars == <<mem, stored, es, cq>>

joinVars == <<left, right, joined>>

wrapVars == <<tele>>

healthVars == <<health>>

toolVars == <<joinVars, wrapVars, healthVars>>

NotToolVars ==
  <<pipelineVars, infraVars, lawVars, foldVars, gateVars, tenantVars, storeVars>>

sideVars == <<foldVars, gateVars, tenantVars, storeVars, toolVars>>

vars == <<pipelineVars, infraVars, lawVars, sideVars>>

Slots == 1..MaxInFlight

NoCmd == [kind |-> "None", id |-> Undefined]

IdleCall ==
  [pc |-> "idle", s |-> s0, c |-> NoCmd, cmdId |-> Undefined, rndEvt |-> Undefined,
   ts |-> 0, decided |-> FALSE, events |-> << >>, idx |-> 0, err |-> "",
   result |-> s0, committed |-> FALSE, trace |-> << >>, ev0 |-> 0, ob0 |-> 0]

AtRest(call) == call.pc \in {"idle", "done", "failed"}

\* ------------------------------------------------ the store port (deps.sql)
\* A transactional store on one connection: statements issued after begin
\* are staged until commit makes them visible or rollback discards them; a
\* statement that fails changes nothing, and begin inside an open
\* transaction joins it.
EmptyDb == [tx |-> FALSE, staged |-> << >>, events |-> << >>, outbox |-> << >>]

RECURSIVE RowsOf(_, _)
RowsOf(staged, table) ==
  IF staged = << >> THEN << >>
  ELSE IF Head(staged).table = table
       THEN <<Head(staged).row>> \o RowsOf(Tail(staged), table)
       ELSE RowsOf(Tail(staged), table)

SqlQuery(d, stmt, row) ==
  CASE stmt = "begin" -> [d EXCEPT !.tx = TRUE]
    [] stmt = "insert into events" ->
         IF d.tx THEN [d EXCEPT !.staged = Append(@, [table |-> "events", row |-> row])]
         ELSE [d EXCEPT !.events = Append(@, row)]
    [] stmt = "insert into outbox" ->
         IF d.tx THEN [d EXCEPT !.staged = Append(@, [table |-> "outbox", row |-> row])]
         ELSE [d EXCEPT !.outbox = Append(@, row)]
    [] stmt = "commit" ->
         [tx |-> FALSE, staged |-> << >>,
          events |-> d.events \o RowsOf(d.staged, "events"),
          outbox |-> d.outbox \o RowsOf(d.staged, "outbox")]
    [] stmt = "rollback" -> [d EXCEPT !.tx = FALSE, !.staged = << >>]

\* The error the store raises when a statement fails.
SqlError(stmt) == "store: " \o stmt

\* -------------------------------------------------- the cache (inMemoryKV)
KvKey(cmdId) == "cmd:" \o cmdId

\* get(key): [value, store]; an expired entry is deleted and reads as null.
KvGet(store, key, nowMs) ==
  IF key \notin DOMAIN store THEN [value |-> Null, store |-> store]
  ELSE IF store[key].expires # 0 /\ nowMs > store[key].expires
       THEN [value |-> Null, store |-> Without(store, key)]
       ELSE [value |-> store[key].value, store |-> store]

\* set(key, value, ttl)
KvSet(store, key, value, ttl, nowMs) ==
  With(store, key, [value |-> value,
                    expires |-> IF ttl # 0 THEN nowMs + ttl * 1000 ELSE 0])

\* JSON.stringify(events): a member whose value is undefined is left out.
Stringify(e) == [f \in {g \in DOMAIN e : e[g] # Undefined} |-> e[f]]

Row(events) == [i \in 1..Len(events) |-> Stringify(events[i])]

\* ------------------------------------------------------------ the pipeline
InvalidCommand == "Invalid command"

EntryPcUnchecked(c, kvOn) == IF kvOn THEN "kvGet" ELSE "decide"

\* if (!spec.validate(c)) throw ...; then the cache lookup if deps.kv is set.
EntryPc(c, kvOn) ==
  IF ~validate(c) THEN "failed" ELSE IF kvOn THEN "kvGet" ELSE "decide"

\* const cmdId = c.id || Math.random().toString(36).substring(7)
CmdIdOf(c, r) == IF Truthy(c.id) THEN c.id ELSE r

IdemHitNever(value) == FALSE

\* if (seen) return s
IdemHit(value) == value # Null

NoEventsNever(events) == FALSE

\* if (events.length === 0) return s
NoEvents(events) == Len(events) = 0

\* The statement persistAndOutbox issues at each position.
Stmt(pc) ==
  CASE pc = "begin" -> "begin"
    [] pc = "insEvents" -> "insert into events"
    [] pc = "insOutbox" -> "insert into outbox"
    [] pc = "commit" -> "commit"
    [] pc = "rollback" -> "rollback"

NextPcPublishEarly(pc, kvOn) ==
  CASE pc = "decide" -> "begin"
    [] pc = "begin" -> "insEvents"
    [] pc = "insEvents" -> "insOutbox"
    [] pc = "insOutbox" -> "publish"
    [] pc = "commit" -> IF kvOn THEN "kvSet" ELSE "publish"
    [] pc = "kvSet" -> "publish"

NextPcMarkFirst(pc, kvOn) ==
  CASE pc = "decide" -> IF kvOn THEN "kvSet" ELSE "begin"
    [] pc = "kvSet" -> "begin"
    [] pc = "begin" -> "insEvents"
    [] pc = "insEvents" -> "insOutbox"
    [] pc = "insOutbox" -> "commit"
    [] pc = "commit" -> "publish"

\* Where handle continues when the effect at pc has succeeded:
\* persistAndOutbox, then the cache write if deps.kv is set, then publish.
NextPc(pc, kvOn) ==
  CASE pc = "decide" -> "begin"
    [] pc = "begin" -> "insEvents"
    [] pc = "insEvents" -> "insOutbox"
    [] pc = "insOutbox" -> "commit"
    [] pc = "commit" -> IF kvOn THEN "kvSet" ELSE "publish"
    [] pc = "kvSet" -> "publish"

CatchPcNoRollback(v, pc) == "failed"

\* Where persistAndOutbox continues when the statement at pc has failed:
\* handlers-generic wraps the statements after begin in try/catch and rolls
\* back; handlers.ts lets the error escape.
CatchPc(v, pc) ==
  IF v = "generic" /\ pc \in {"insEvents", "insOutbox", "commit"}
  THEN "rollback" ELSE "failed"

ReturnedInput(s, events) == s

\* return spec.fold(spec.evolve, s, events) / evts.reduce(evolve, s)
Returned(s, events) == fold("evolve", s, events)

dedupeByForgetful(seenIds, e) ==
  IF ~Truthy(e.id) THEN [apply |-> TRUE, seen |-> seenIds]
  ELSE IF e.id \in seenIds THEN [apply |-> FALSE, seen |-> seenIds]
  ELSE [apply |-> TRUE, seen |-> seenIds]

\* dedupeBy(apply)(e): whether apply is called, and __seen afterwards.
dedupeBy(seenIds, e) ==
  IF ~Truthy(e.id) THEN [apply |-> TRUE, seen |-> seenIds]
  ELSE IF e.id \in seenIds THEN [apply |-> FALSE, seen |-> seenIds]
  ELSE [apply |-> TRUE, seen |-> seenIds \cup {e.id}]

Op(name, ok) == [op |-> name, ok |-> ok]

DecidedOnLog(call, t) ==
  LET latest == IF Len(db.events) > call.ev0 THEN s0 ELSE call.s
      ev == decide(latest, call.c, call.rndEvt, toISOString(t)) IN
  IF NoEvents(ev)
  THEN [call EXCEPT !.pc = "done", !.decided = TRUE, !.ts = t, !.events = ev,
                    !.result = call.s]
  ELSE [call EXCEPT !.pc = NextPc("decide", hasKv), !.decided = TRUE, !.ts = t,
                    !.events = ev, !.idx = 1]

\* handle after the idempotency check has passed: decide, then either the
\* early return or the first statement of persistAndOutbox.
Decided(call, t) ==
  LET ev == decide(call.s, call.c, call.rndEvt, toISOString(t)) IN
  IF NoEvents(ev)
  THEN [call EXCEPT !.pc = "done", !.decided = TRUE, !.ts = t, !.events = ev,
                    !.result = call.s]
  ELSE [call EXCEPT !.pc = NextPc("decide", hasKv), !.decided = TRUE, !.ts = t,
                    !.events = ev, !.idx = 1]

\* handle after the last effect before the publish loop, and after each
\* publish: the next event, or the fold and the return.
Published(call) ==
  IF call.idx >= Len(call.events)
  THEN [call EXCEPT !.pc = "done", !.idx = Len(call.events) + 1,
                    !.result = Returned(call.s, call.events)]
  ELSE [call EXCEPT !.idx = @ + 1]

Failed(call, e) == [call EXCEPT !.pc = "failed", !.err = e]

\* The record of command ids that returned on an empty decision, after call.
Noted(call) ==
  IF call.pc = "done" /\ call.decided /\ NoEvents(call.events) /\ Truthy(call.c.id)
  THEN noops \cup {call.c.id} ELSE noops

Serial == \A k \in Slots : AtRest(calls[k])

FreeSlot(k) ==
  /\ AtRest(calls[k])
  /\ \A j \in Slots : j < k => ~AtRest(calls[j])

\* handle(s, c) up to its first await, when n random values have been drawn.
Entered(s, c, n) ==
  LET r1 == Rnd(n + 1)
      r2 == Rnd(n + 2)
      pc0 == EntryPc(c, hasKv)
      fresh == [IdleCall EXCEPT !.s = s, !.c = c, !.ev0 = Len(db.events),
                                !.ob0 = Len(db.outbox)]
      valid == [fresh EXCEPT !.pc = pc0, !.cmdId = CmdIdOf(c, r1), !.rndEvt = r2]
  IN  IF pc0 = "failed" THEN Failed(fresh, InvalidCommand)
      ELSE IF pc0 = "decide" THEN Decided(valid, now)
      ELSE valid

Begin(k, s, c) ==
  LET call == CHOOSE x \in {Entered(s, c, rnd)} : TRUE IN
  /\ calls' = [calls EXCEPT ![k] = call]
  /\ rnd' = IF call.pc # "failed" /\ ~Truthy(c.id) THEN rnd + 2 ELSE rnd
  /\ noops' = Noted(call)

Start(k, s, c) ==
  /\ started < MaxCalls
  /\ Serial
  /\ FreeSlot(k)
  /\ Begin(k, s, c)
  /\ started' = started + 1
  /\ UNCHANGED <<variant, hasKv, now, ticks, faults, db, kv, seen, invoked,
                 delivered, marked, persistFailures, http,
                 infraVars, lawVars, sideVars>>

\* handle(s, c) called while other calls may be in flight: nothing in handle
\* waits for them.
ConcurrentStart(k, s, c) ==
  /\ started < MaxCalls
  /\ FreeSlot(k)
  /\ Begin(k, s, c)
  /\ started' = started + 1
  /\ UNCHANGED <<variant, hasKv, now, ticks, faults, db, kv, seen, invoked,
                 delivered, marked, persistFailures, http,
                 infraVars, lawVars, sideVars>>

\* await deps.kv.get(`cmd:${cmdId}`) resolves.
KvGetOk(k) ==
  LET got == KvGet(kv, KvKey(calls[k].cmdId), now * 1000)
      traced == [calls[k] EXCEPT !.trace = Append(@, Op("kv.get", TRUE))]
      call == IF IdemHit(got.value)
              THEN [traced EXCEPT !.pc = "done", !.result = calls[k].s]
              ELSE Decided(traced, now)
  IN
  /\ calls[k].pc = "kvGet"
  /\ kv' = got.store
  /\ calls' = [calls EXCEPT ![k] = call]
  /\ noops' = Noted(call)
  /\ UNCHANGED <<variant, hasKv, now, ticks, faults, started, rnd, db, seen,
                 invoked, delivered, marked, persistFailures, http,
                 infraVars, lawVars, sideVars>>

\* await deps.kv.get(...) rejects.
KvGetFail(k) ==
  /\ calls[k].pc = "kvGet"
  /\ faults < MaxFaults
  /\ faults' = faults + 1
  /\ calls' = [calls EXCEPT ![k] =
       Failed([@ EXCEPT !.trace = Append(@, Op("kv.get", FALSE))], "kv: get")]
  /\ UNCHANGED <<variant, hasKv, now, ticks, started, rnd, db, kv, seen, invoked,
                 delivered, marked, persistFailures, noops, http,
                 infraVars, lawVars, sideVars>>

InPersist(pc) == pc \in {"begin", "insEvents", "insOutbox", "commit"}

\* A statement of persistAndOutbox succeeds.
SqlOk(k) ==
  LET call == calls[k] IN
  /\ InPersist(call.pc)
  /\ db' = SqlQuery(db, Stmt(call.pc), Row(call.events))
  /\ calls' = [calls EXCEPT ![k] =
       LET traced == [call EXCEPT !.trace = Append(@, Op(Stmt(call.pc), TRUE)),
                                  !.committed = (call.pc = "commit"),
                                  !.pc = NextPc(call.pc, hasKv)]
       IN IF traced.pc = "publish" /\ NoEvents(call.events) THEN Published(traced)
          ELSE traced]
  /\ UNCHANGED <<variant, hasKv, now, ticks, faults, started, rnd, kv, seen,
                 invoked, delivered, marked, persistFailures, noops, http,
                 infraVars, lawVars, sideVars>>

\* A statement of persistAndOutbox fails: the store raises, nothing changes.
SqlFail(k) ==
  LET call == calls[k]
      to == CatchPc(variant, call.pc)
  IN
  /\ InPersist(call.pc)
  /\ faults < MaxFaults
  /\ faults' = faults + 1
  /\ calls' = [calls EXCEPT ![k] =
       [call EXCEPT !.trace = Append(@, Op(Stmt(call.pc), FALSE)),
                    !.err = SqlError(Stmt(call.pc)), !.pc = to]]
  /\ persistFailures' = IF to = "failed" THEN persistFailures + 1 ELSE persistFailures
  /\ UNCHANGED <<variant, hasKv, now, ticks, started, rnd, db, kv, seen, invoked,
                 delivered, marked, noops, http,
                 infraVars, lawVars, sideVars>>

\* catch (error) { await sql.query('rollback'); throw error; }
SqlRollback(k) ==
  LET call == calls[k] IN
  /\ call.pc = "rollback"
  /\ db' = SqlQuery(db, Stmt("rollback"), << >>)
  /\ calls' = [calls EXCEPT ![k] =
       [call EXCEPT !.trace = Append(@, Op(Stmt("rollback"), TRUE)), !.pc = "failed"]]
  /\ persistFailures' = persistFailures + 1
  /\ UNCHANGED <<variant, hasKv, now, ticks, faults, started, rnd, kv, seen,
                 invoked, delivered, marked, noops, http,
                 infraVars, lawVars, sideVars>>

\* await deps.kv.set(`cmd:${cmdId}`, '1', 3600) resolves.
KvSetOk(k) ==
  LET call == calls[k]
      traced == [call EXCEPT !.trace = Append(@, Op("kv.set", TRUE)),
                             !.pc = NextPc("kvSet", hasKv)]
  IN
  /\ call.pc = "kvSet"
  /\ kv' = KvSet(kv, KvKey(call.cmdId), "1", TTL, now * 1000)
  /\ marked' = IF call.cmdId \in CmdIds THEN [marked EXCEPT ![call.cmdId] = now]
               ELSE marked
  /\ calls' = [calls EXCEPT ![k] =
       IF NoEvents(call.events) THEN Published(traced) ELSE traced]
  /\ UNCHANGED <<variant, hasKv, now, ticks, faults, started, rnd, db, seen,
                 invoked, delivered, persistFailures, noops, http,
                 infraVars, lawVars, sideVars>>

\* await deps.kv.set(...) rejects.
KvSetFail(k) ==
  /\ calls[k].pc = "kvSet"
  /\ faults < MaxFaults
  /\ faults' = faults + 1
  /\ calls' = [calls EXCEPT ![k] =
       Failed([@ EXCEPT !.trace = Append(@, Op("kv.set", FALSE))], "kv: set")]
  /\ UNCHANGED <<variant, hasKv, now, ticks, started, rnd, db, kv, seen, invoked,
                 delivered, marked, persistFailures, noops, http,
                 infraVars, lawVars, sideVars>>

CanPublish(k) ==
  /\ calls[k].pc = "publish"
  /\ calls[k].idx \in 1..Len(calls[k].events)

\* await publish(event) where the wrapper does not call bus.publish.
PublishSkip(k) ==
  LET call == calls[k]
      d == dedupeBy(seen, call.events[call.idx])
  IN
  /\ CanPublish(k)
  /\ ~d.apply
  /\ seen' = d.seen
  /\ calls' = [calls EXCEPT ![k] = Published(call)]
  /\ UNCHANGED <<variant, hasKv, now, ticks, faults, started, rnd, db, kv,
                 invoked, delivered, marked, persistFailures, noops, http,
                 infraVars, lawVars, sideVars>>

\* await publish(event) where bus.publish is called and resolves.
PublishOk(k) ==
  LET call == calls[k]
      e == call.events[call.idx]
      d == dedupeBy(seen, e)
  IN
  /\ CanPublish(k)
  /\ d.apply
  /\ seen' = d.seen
  /\ invoked' = Append(invoked, e)
  /\ delivered' = Append(delivered, e)
  /\ calls' = [calls EXCEPT ![k] =
       Published([call EXCEPT !.trace = Append(@, Op("publish", TRUE))])]
  /\ UNCHANGED <<variant, hasKv, now, ticks, faults, started, rnd, db, kv,
                 marked, persistFailures, noops, http,
                 infraVars, lawVars, sideVars>>

\* await publish(event) where bus.publish is called and rejects.
PublishFail(k) ==
  LET call == calls[k]
      e == call.events[call.idx]
      d == dedupeBy(seen, e)
  IN
  /\ CanPublish(k)
  /\ d.apply
  /\ faults < MaxFaults
  /\ faults' = faults + 1
  /\ seen' = d.seen
  /\ invoked' = Append(invoked, e)
  /\ calls' = [calls EXCEPT ![k] =
       Failed([call EXCEPT !.trace = Append(@, Op("publish", FALSE))], "bus: publish")]
  /\ UNCHANGED <<variant, hasKv, now, ticks, started, rnd, db, kv, delivered,
                 marked, persistFailures, noops, http,
                 infraVars, lawVars, sideVars>>

\* Time passes between two handle invocations.
Tick ==
  /\ Serial
  /\ ticks < MaxTicks
  /\ ticks' = ticks + 1
  /\ now' = now + TickSeconds
  /\ UNCHANGED <<variant, hasKv, faults, started, rnd, db, kv, seen, invoked,
                 delivered, calls, marked, persistFailures, noops, http,
                 infraVars, lawVars, sideVars>>

\* ------------------------------------------------------------ httpHandle
\* typeof v === 'string', for a member that is a string, null or absent.
IsString(v) == v # Undefined /\ v # Null

RawUrl(url, custom) ==
  [url |-> url, custom |-> custom, short |-> Undefined, userId |-> Undefined]

Threw(msg) == [ok |-> FALSE, error |-> msg]

Gave(v) == [ok |-> TRUE, value |-> v]

\* A string member of the raw input is copied when it is non-empty.
Copied(v) == IF Truthy(v) /\ IsString(v) THEN v ELSE Undefined

\* normalize(r): the Domain object, or the error thrown.
normalize(r) ==
  IF ~IsString(r.url) \/ ~Truthy(r.url) THEN Threw("Invalid URL")
  ELSE Gave([url |-> r.url, custom |-> Copied(r.custom), short |-> Copied(r.short),
             userId |-> Copied(r.userId)])

\* spec.normalize(raw) of the specification the generic handler is built
\* on: a raw input that already is a command is passed through (as
\* CounterSpec does), any other is normalized as the URL shortener does.
specNormalize(v, raw) ==
  IF v = "generic" /\ "kind" \in DOMAIN raw THEN Gave(raw) ELSE normalize(raw)

\* const command = domain as any as Command: members the object lacks read
\* as undefined.
AsCommand(domain) ==
  [f \in DOMAIN domain \cup {"kind", "id"} |->
     IF f \in DOMAIN domain THEN domain[f] ELSE Undefined]

\* makeHttpHandle: { kind: 'Create', long: domain.url, ..., id: random }
CreateCommand(domain, id) ==
  [kind |-> "Create", long |-> domain.url, custom |-> domain.custom,
   userId |-> domain.userId, id |-> id]

\* The result payload; a member that the object literal lacks is undefined.
Result(success, error, status, short) ==
  [success |-> success, error |-> error, status |-> status, short |-> short]

HttpCaughtHandleOnly(v, stage) == stage = "handle"

\* Whether a throw at the stage is inside a try block of httpHandle:
\* handlers-generic wraps the whole body, handlers.ts wraps normalize and
\* the call of handle each in its own.
HttpCaught(v, stage) == stage \in {"normalize", "handle"}

\* What the catch around normalize returns.
NormalizeFailed(v, s, msg) ==
  IF v = "generic"
  THEN [state |-> s, result |-> Result("false", msg, 400, Undefined)]
  ELSE [state |-> s, result |-> Result(Undefined, msg, 400, Undefined)]

\* What the catch around handle returns.
HandleFailed(v, s, msg) ==
  IF v = "generic"
  THEN [state |-> s, result |-> Result("false", msg, 400, Undefined)]
  ELSE [state |-> s, result |-> Result(Undefined, msg, 500, Undefined)]

\* Object.keys(newState.byShort).filter(short => !s.byShort[short])
NewShorts(s, newState) ==
  {short \in DOMAIN newState.byShort : ~Truthy(Lookup(s.byShort, short))}

\* What httpHandle returns when handle has returned newState.
HandleReturned(v, s, newState) ==
  IF v = "generic"
  THEN [state |-> newState, result |-> Result("true", Undefined, 200, Undefined)]
  ELSE IF NewShorts(s, newState) # {}
  THEN [state |-> newState,
        result |-> Result("true", Undefined, 200,
                          CHOOSE short \in NewShorts(s, newState) : TRUE)]
  ELSE [state |-> newState,
        result |-> Result("false", "No URL created", 400, Undefined)]

NoOut == [state |-> s0, result |-> Result(Undefined, Undefined, 0, Undefined)]

IdleHttp ==
  [pc |-> "idle", s |-> s0, raw |-> RawUrl(Undefined, Undefined), failed |-> "none",
   out |-> NoOut]

\* Raw inputs: url absent-as-null, empty, not a URL, a URL; and, for the
\* generic handler, raw inputs that are commands.
UrlRaws ==
  {RawUrl(Null, Undefined), RawUrl("", "k1"), RawUrl("k1", Undefined),
   RawUrl("http://a", "k1"), RawUrl("http://a", Undefined)}

\* Requests for short codes that the input state may hold for another URL.
TakenRaws == {RawUrl("http://b", "k1"), RawUrl("http://b", Undefined)}

CommandRaws ==
  {Cmd("Create", "http://a", "k1", "i1"), Cmd("Create", "", "k1", "i1"),
   [kind |-> "Expire", short |-> "k1", id |-> "i2"]}

HttpRaws(v) == IF v = "generic" THEN UrlRaws \cup CommandRaws ELSE UrlRaws

HttpIdle == \A k \in Slots : http[k].pc # "running"

\* httpHandle(s, raw) up to its first await: normalize, build the command,
\* call handle.
HttpStart(k, s, raw) ==
  LET n == CHOOSE x \in {specNormalize(variant, raw)} : TRUE
      drawn == IF variant = "generic" THEN 0 ELSE 1
      c == IF variant = "generic" THEN AsCommand(n.value)
           ELSE CreateCommand(n.value, Rnd(rnd + 1))
      call == CHOOSE x \in {Entered(s, c, rnd + drawn)} : TRUE
  IN
  /\ started < MaxCalls
  /\ Serial
  /\ HttpIdle
  /\ FreeSlot(k)
  /\ started' = started + 1
  /\ IF ~n.ok
     THEN /\ http' = [http EXCEPT ![k] =
                 [pc |-> IF HttpCaught(variant, "normalize") THEN "returned" ELSE "thrown",
                  s |-> s, raw |-> raw, failed |-> "normalize",
                  out |-> NormalizeFailed(variant, s, n.error)]]
          /\ calls' = [calls EXCEPT ![k] = IdleCall]
          /\ UNCHANGED <<rnd, noops>>
     ELSE /\ http' = [http EXCEPT ![k] =
                 [pc |-> "running", s |-> s, raw |-> raw, failed |-> "none",
                  out |-> NoOut]]
          /\ calls' = [calls EXCEPT ![k] = call]
          /\ rnd' = IF call.pc # "failed" /\ ~Truthy(c.id)
                    THEN rnd + drawn + 2 ELSE rnd + drawn
          /\ noops' = Noted(call)
  /\ UNCHANGED <<variant, hasKv, now, ticks, faults, db, kv, seen, invoked,
                 delivered, marked, persistFailures,
                 infraVars, lawVars, sideVars>>

\* httpHandle after await handle(s, command) has settled.
HttpReturn(k) ==
  LET call == calls[k] IN
  /\ http[k].pc = "running"
  /\ call.pc \in {"done", "failed"}
  /\ http' = [http EXCEPT ![k] =
       IF call.pc = "failed"
       THEN [@ EXCEPT !.pc = IF HttpCaught(variant, "handle") THEN "returned"
                              ELSE "thrown",
                      !.failed = "handle",
                      !.out = HandleFailed(variant, http[k].s, call.err)]
       ELSE [@ EXCEPT !.pc = "returned",
                      !.out = HandleReturned(variant, http[k].s, call.result)]]
  /\ UNCHANGED <<variant, hasKv, now, ticks, faults, started, rnd, db, kv, seen,
                 invoked, delivered, calls, marked, persistFailures, noops,
                 infraVars, lawVars, sideVars>>

\* ---------------------------------- the outbox test double (TestInfrastructure)
MaxInfraOps == 6     \* operations a client calls on the test double

MaxVerifyCalls == 2  \* calls of verifyLaws, that of createGenericService included

TxIds == {"tx1", "tx2"}

\* new TestInfrastructure(), with the receivedEvents array of the
\* subscriber its client registers.
NewInfra ==
  [transactions |-> EmptyObj, publishedEvents |-> << >>, listeners |-> 0,
   received |-> << >>]

NewTx == [events |-> << >>, outbox |-> << >>, committed |-> FALSE]

NoTransaction == "No active transaction"

beginTransaction(inf, txId) ==
  Gave([inf EXCEPT !.transactions = With(@, txId, NewTx)])

persistEvents(inf, txId, events) ==
  IF txId \notin DOMAIN inf.transactions THEN Threw(NoTransaction)
  ELSE Gave([inf EXCEPT !.transactions[txId].events = @ \o events])

enqueueOutbox(inf, txId, events) ==
  IF txId \notin DOMAIN inf.transactions THEN Threw(NoTransaction)
  ELSE Gave([inf EXCEPT !.transactions[txId].outbox = @ \o events])

\* eventBus.emit('event', e) for each e of the batch: every registered
\* listener pushes e onto receivedEvents.
RECURSIVE Emitted(_, _)
Emitted(batch, listeners) ==
  IF batch = << >> THEN << >>
  ELSE [i \in 1..listeners |-> Head(batch)] \o Emitted(Tail(batch), listeners)

commitTransaction(inf, txId) ==
  IF txId \notin DOMAIN inf.transactions THEN Threw(NoTransaction)
  ELSE LET outbox == inf.transactions[txId].outbox IN
       Gave([inf EXCEPT !.transactions[txId].committed = TRUE,
                        !.publishedEvents = @ \o outbox,
                        !.received = @ \o Emitted(outbox, inf.listeners)])

rollbackKeeps(inf, txId) == Gave(inf)

rollbackTransaction(inf, txId) ==
  Gave([inf EXCEPT !.transactions = Without(@, txId)])

\* subscribeToEvents(event => receivedEvents.push(event))
subscribeToEvents(inf) == [inf EXCEPT !.listeners = @ + 1]

\* the function subscribeToEvents returned: eventBus.off('event', handler)
unsubscribe(inf) == [inf EXCEPT !.listeners = IF @ > 0 THEN @ - 1 ELSE 0]

getPublishedEvents(inf) == inf.publishedEvents

reset(inf) ==
  [inf EXCEPT !.transactions = EmptyObj, !.publishedEvents = << >>, !.listeners = 0]

\* The events a client stages: the first n of e1, e2, each marked with the
\* begin that opened the transaction it is staged in.
Staged(n, i) == SubSeq(<<[id |-> "e1", inc |-> i], [id |-> "e2", inc |-> i]>>, 1, n)

Called(op, txId) == [op |-> op, txId |-> txId]

\* What an operation leaves behind: its result, or the instance as it was
\* when the operation threw.
After(r) == IF r.ok THEN r.value ELSE infra

InfraCall(op, txId) ==
  /\ infraOps < MaxInfraOps
  /\ infraOps' = infraOps + 1
  /\ lastOp' = Called(op, txId)
  /\ UNCHANGED <<pipelineVars, lawVars, sideVars>>

TxBegin(txId) ==
  /\ InfraCall("begin", txId)
  /\ infra' = After(beginTransaction(infra, txId))
  /\ begun' = begun + 1
  /\ inc' = [inc EXCEPT ![txId] = begun + 1]
  /\ UNCHANGED rolledBack

TxPersist(txId, n) ==
  /\ InfraCall("persist", txId)
  /\ infra' = After(persistEvents(infra, txId, Staged(n, inc[txId])))
  /\ UNCHANGED <<begun, inc, rolledBack>>

TxEnqueue(txId, n) ==
  /\ InfraCall("enqueue", txId)
  /\ infra' = After(enqueueOutbox(infra, txId, Staged(n, inc[txId])))
  /\ UNCHANGED <<begun, inc, rolledBack>>

TxCommit(txId) ==
  /\ InfraCall("commit", txId)
  /\ infra' = After(commitTransaction(infra, txId))
  /\ UNCHANGED <<begun, inc, rolledBack>>

TxRollback(txId) ==
  /\ InfraCall("rollback", txId)
  /\ infra' = After(rollbackTransaction(infra, txId))
  /\ rolledBack' =
       IF txId \in DOMAIN infra.transactions /\ ~infra.transactions[txId].committed
       THEN rolledBack \cup {inc[txId]} ELSE rolledBack
  /\ UNCHANGED <<begun, inc>>

Subscribe ==
  /\ infra.listeners = 0
  /\ InfraCall("subscribe", "")
  /\ infra' = subscribeToEvents(infra)
  /\ UNCHANGED <<begun, inc, rolledBack>>

Reset ==
  /\ InfraCall("reset", "")
  /\ infra' = reset(infra)
  /\ UNCHANGED <<begun, inc, rolledBack>>

InfraInit ==
  /\ infra = NewInfra
  /\ infraOps = 0
  /\ begun = 0
  /\ inc = [txId \in TxIds |-> 0]
  /\ rolledBack = {}
  /\ lastOp = Called("none", "")

InfraNext ==
  \/ \E txId \in TxIds : TxBegin(txId)
  \/ \E txId \in TxIds, n \in 1..2 : TxPersist(txId, n)
  \/ \E txId \in TxIds, n \in 1..2 : TxEnqueue(txId, n)
  \/ \E txId \in TxIds : TxCommit(txId)
  \/ \E txId \in TxIds : TxRollback(txId)
  \/ Subscribe
  \/ Reset

\* ------------------------------------------------------- law verification
\* A DomainSpec subclass as verification sees it. evolveOk and projectOk say
\* that the function returns for every event (it throws otherwise); answersOk
\* that queries and deriveView return values of one type; decidePure that
\* decide returns the same events for the same state and command. A decide
\* that is not pure has the deterministic events among its outcomes, and the
\* pipeline follows that outcome. generateEvents yields a non-empty list in
\* some run of every property.
DomainSpecs ==
  [evolveOk : BOOLEAN, projectOk : BOOLEAN, answersOk : BOOLEAN,
   decidePure : BOOLEAN, lawsVerified : {FALSE}]

SoundSpec ==
  [evolveOk |-> TRUE, projectOk |-> TRUE, answersOk |-> TRUE,
   decidePure |-> TRUE, lawsVerified |-> FALSE]

LawPassed(law, description) ==
  [law |-> law, passed |-> TRUE, error |-> Undefined, description |-> description]

LawFailed(law, error, description) ==
  [law |-> law, passed |-> FALSE, error |-> error, description |-> description]

\* error.message of what fc.assert throws, by its cause.
EvolveThrew == "Property failed: evolve threw"

ProjectThrew == "Property failed: project threw"

ReturnedFalse == "Property failed: predicate returned false"

\* Folds evolve, then project, twice each over generated events; never
\* calls decide.
verifyPurity(d) ==
  IF ~d.evolveOk THEN LawFailed("1. Purity", EvolveThrew, "Functions must be deterministic")
  ELSE IF ~d.projectOk
       THEN LawFailed("1. Purity", ProjectThrew, "Functions must be deterministic")
       ELSE LawPassed("1. Purity",
                   "All functions are deterministic (same input -> same output)")

\* Folds evolve over the empty list only.
verifyFunctoriality(d) ==
  LawPassed("2. Functoriality (R)", "R functor preserves composition: R(g.f) = R(g).R(f)")

verifyObservabilityNaturality(d) ==
  LawPassed("3. Observability Naturality (O)", "Observability composes: O(g.f) = O(g).O(f)")

verifyCQRSCommutativity(d) ==
  IF ~d.evolveOk
  THEN LawFailed("4. CQRS Commutativity", EvolveThrew, "CQRS consistency must hold")
  ELSE IF ~d.projectOk
       THEN LawFailed("4. CQRS Commutativity", ProjectThrew, "CQRS consistency must hold")
       ELSE IF ~d.answersOk
            THEN LawFailed("4. CQRS Commutativity", ReturnedFalse, "CQRS consistency must hold")
            ELSE LawPassed("4. CQRS Commutativity",
                        "Read model queries equal derived view queries: queries(project*) = deriveView(evolve*)")

\* The result verifyOutboxCommutativity returns; the check it starts is
\* StartedCheck below.
verifyOutboxCommutativity(d) ==
  LawPassed("5. Outbox Commutativity",
         "Transactional outbox ensures exactly-once delivery (verified with real infrastructure)")

verifyPushPullEquivalence(d) ==
  LawPassed("6. Push/Pull Equivalence",
         "Push and pull eventually converge to same state (verified with WebSocket vs HTTP)")

verifyReplayDeterminism(d) ==
  IF ~d.evolveOk
  THEN LawFailed("7. Replay Determinism", EvolveThrew,
              "Replay must be deterministic and associative")
  ELSE LawPassed("7. Replay Determinism",
              "Fold associativity: fold(f, fold(f, s, xs), ys) = fold(f, s, xs++ys)")

verifyIdempotence(d) ==
  IF ~d.evolveOk
  THEN LawFailed("8. Idempotence", EvolveThrew, "Operations must be idempotent by ID")
  ELSE LawPassed("8. Idempotence",
              "Duplicate operations with same ID are ignored (verified at Spec and Infrastructure levels)")

verifyCausalityOrdering(d) ==
  LawPassed("9. Causality/Ordering",
         "Causal ordering is preserved within aggregates (verified with state transitions)")

verifyMonoidalAggregation(d) ==
  LawPassed("10. Monoidal Aggregation", "Aggregations are associative and have identity")

verifyPullbackCorrectness(d) ==
  LawPassed("11. Pullback Correctness", "Joins return exactly key-matching pairs")

verifyPushoutSchemaEvolution(d) ==
  LawPassed("12. Pushout Schema Evolution", "Schema evolution preserves old consumer behavior")

\* The checks of verifyAllLaws in the order it calls them.
LawChecks(d) ==
  <<verifyPurity(d), verifyFunctoriality(d), verifyObservabilityNaturality(d),
    verifyCQRSCommutativity(d), verifyOutboxCommutativity(d),
    verifyPushPullEquivalence(d), verifyReplayDeterminism(d), verifyIdempotence(d),
    verifyCausalityOrdering(d), verifyMonoidalAggregation(d),
    verifyPullbackCorrectness(d), verifyPushoutSchemaEvolution(d)>>

LawNames ==
  <<"1. Purity", "2. Functoriality (R)", "3. Observability Naturality (O)",
    "4. CQRS Commutativity", "5. Outbox Commutativity", "6. Push/Pull Equivalence",
    "7. Replay Determinism", "8. Idempotence", "9. Causality/Ordering",
    "10. Monoidal Aggregation", "11. Pullback Correctness",
    "12. Pushout Schema Evolution">>

PushedWhilePassing(results, r) ==
  IF \E i \in DOMAIN results : ~results[i].passed THEN results ELSE Append(results, r)

\* results.push(r)
Pushed(results, r) == Append(results, r)

RECURSIVE Collected(_, _)
Collected(rs, n) == IF n = 0 THEN << >> ELSE Pushed(Collected(rs, n - 1), rs[n])

verifyAllLaws(d) ==
  LET results == Collected(LawChecks(d), Len(LawChecks(d)))
      passedCount == Cardinality({i \in DOMAIN results : results[i].passed})
  IN [allPassed |-> passedCount = Len(results), results |-> results,
      passedCount |-> passedCount, totalCount |-> Len(results)]

AnyResult(r) == TRUE

\* r => !r.passed
IsFailed(r) == ~r.passed

\* One line of the message: the law, its description and, when the result
\* has one, its error.
Line(r) == [law |-> r.law, description |-> r.description, error |-> r.error]

\* The message of the error enforceLaws throws: the number of failed laws,
\* a line for each and the passed/total count.
ErrorMessage(results) ==
  LET failedLaws == SelectSeq(results.results, IsFailed)
  IN [count |-> Len(failedLaws),
      lines |-> [i \in DOMAIN failedLaws |-> Line(failedLaws[i])],
      passedCount |-> results.passedCount, totalCount |-> results.totalCount]

enforceLaws(d) ==
  LET results == verifyAllLaws(d)
  IN IF ~results.allPassed THEN Threw(ErrorMessage(results)) ELSE Gave(results)

NeverVerified(d) == FALSE

\* if (this._lawsVerified) return
AlreadyVerified(d) == d.lawsVerified

verifyLaws(d) ==
  IF AlreadyVerified(d) THEN Gave(d)
  ELSE LET e == enforceLaws(d)
       IN IF e.ok THEN Gave([d EXCEPT !.lawsVerified = TRUE]) ELSE Threw(e.error)

\* The events verifyOutboxLaw stages.
OutboxEvents == Staged(2, 0)

\* A call of verifyOutboxLaw: the await it is suspended at, its instance of
\* the test double, what it returned, and the variable passed of
\* verifyOutboxCommutativity that its then-callback assigns.
CheckReturned(chk, b) ==
  [chk EXCEPT !.pc = 14, !.result = IF b THEN "true" ELSE "false"]

\* await of an operation: the body goes on, or its catch returns false.
Awaited(chk, r, pc) ==
  IF r.ok THEN [chk EXCEPT !.pc = pc, !.infra = r.value] ELSE CheckReturned(chk, FALSE)

\* verifyOutboxLaw(new TestInfrastructure()) up to its first await.
StartedCheck ==
  [pc |-> 1, infra |-> beginTransaction(NewInfra, "tx1").value,
   result |-> "pending", passed |-> TRUE]

\* verifyOutboxLaw from one await to the next.
verifyOutboxLaw(chk) ==
  LET inf == chk.infra
  IN CASE chk.pc = 1 -> Awaited(chk, persistEvents(inf, "tx1", OutboxEvents), 2)
       [] chk.pc = 2 -> Awaited(chk, enqueueOutbox(inf, "tx1", OutboxEvents), 3)
       [] chk.pc = 3 -> Awaited(chk, commitTransaction(inf, "tx1"), 4)
       [] chk.pc = 4 ->
            IF Len(getPublishedEvents(inf)) # Len(OutboxEvents) THEN CheckReturned(chk, FALSE)
            ELSE Awaited(chk, beginTransaction(reset(inf), "tx2"), 5)
       [] chk.pc = 5 -> Awaited(chk, persistEvents(inf, "tx2", OutboxEvents), 6)
       [] chk.pc = 6 -> Awaited(chk, enqueueOutbox(inf, "tx2", OutboxEvents), 7)
       [] chk.pc = 7 -> Awaited(chk, rollbackTransaction(inf, "tx2"), 8)
       [] chk.pc = 8 ->
            IF Len(getPublishedEvents(inf)) # 0 THEN CheckReturned(chk, FALSE)
            ELSE Awaited(chk,
                   beginTransaction(
                     subscribeToEvents([reset(inf) EXCEPT !.received = << >>]), "tx3"),
                   9)
       [] chk.pc = 9 -> Awaited(chk, persistEvents(inf, "tx3", OutboxEvents), 10)
       [] chk.pc = 10 -> Awaited(chk, enqueueOutbox(inf, "tx3", OutboxEvents), 11)
       [] chk.pc = 11 -> Awaited(chk, commitTransaction(inf, "tx3"), 12)
       [] chk.pc = 12 -> Awaited(chk, commitTransaction(inf, "tx3"), 13)
       [] chk.pc = 13 ->
            CheckReturned([chk EXCEPT !.infra = unsubscribe(inf)],
                     Len(inf.received) = Len(OutboxEvents))
       [] chk.pc = 14 -> [chk EXCEPT !.pc = 15, !.passed = (chk.result = "true")]

createRegardless(r) == "up"

\* createGenericService: the handler is built when spec.verifyLaws() returned.
createGenericService(r) == IF r.ok THEN "up" ELSE "refused"

\* One call of spec.verifyLaws(), with the run of enforceLaws it makes.
VerifyLawsCall ==
  /\ verifyCalls < MaxVerifyCalls
  /\ verifyCalls' = verifyCalls + 1
  /\ LET r == verifyLaws(lawSpec)
     IN /\ lawSpec' = IF r.ok THEN r.value ELSE lawSpec
        /\ IF AlreadyVerified(lawSpec)
           THEN UNCHANGED <<verifyRuns, suite, raised, checks>>
           ELSE /\ verifyRuns' = verifyRuns + 1
                /\ suite' = <<verifyAllLaws(lawSpec)>>
                /\ raised' = IF r.ok THEN << >> ELSE <<r.error>>
                /\ checks' = Append(checks, StartedCheck)

VerifyLaws ==
  /\ VerifyLawsCall
  /\ UNCHANGED <<service, pipelineVars, infraVars, sideVars>>

CreateService ==
  /\ service = "none"
  /\ VerifyLawsCall
  /\ service' = createGenericService(verifyLaws(lawSpec))
  /\ UNCHANGED <<pipelineVars, infraVars, sideVars>>

OutboxStep(i) ==
  /\ i \in DOMAIN checks
  /\ checks[i].pc < 15
  /\ checks' = [checks EXCEPT ![i] = verifyOutboxLaw(@)]
  /\ UNCHANGED <<lawSpec, verifyCalls, verifyRuns, suite, raised, service,
                 pipelineVars, infraVars, sideVars>>

\* The commands sent to the service.
ServiceCommands == {Cmd("Create", "http://a", "k1", "i1")}

\* handle of the object createGenericService returned.
ServiceHandle(k, s, c) ==
  /\ service = "up"
  /\ Start(k, s, c)

LawIdle ==
  /\ lawSpec = SoundSpec
  /\ verifyCalls = 0
  /\ verifyRuns = 0
  /\ suite = << >>
  /\ raised = << >>
  /\ checks = << >>
  /\ service = "none"

LawInit ==
  /\ lawSpec \in DomainSpecs
  /\ verifyCalls = 0
  /\ verifyRuns = 0
  /\ suite = << >>
  /\ raised = << >>
  /\ checks = << >>
  /\ service = "none"

\* ------------------------------------------------- the domain under replay
MaxLen == 4          \* events applied in a behaviour

\* The events a behaviour draws from: two short codes, two long URLs, every
\* kind of event, each with its own id and timestamp.
Evt(kind, short, long, id, timestamp) ==
  [kind |-> kind, short |-> short, long |-> long, userId |-> Undefined,
   id |-> id, timestamp |-> timestamp]

EventPool ==
  {Evt("Created", "k1", "http://a", "evt1", "T00001"),
   Evt("Created", "k2", "http://b", "evt2", "T00002"),
   Evt("Created", "k2", "http://a", "evt3", "T00003"),
   [kind |-> "Clicked", short |-> "k1", id |-> "evt4", timestamp |-> "T00004"],
   [kind |-> "Clicked", short |-> "k2", id |-> "evt5", timestamp |-> "T00005"],
   [kind |-> "Expired", short |-> "k1", id |-> "evt6", timestamp |-> "T00006"],
   [kind |-> "Expired", short |-> "k2", id |-> "evt7", timestamp |-> "T00007"],
   [kind |-> "CustomTaken", custom |-> "k1", id |-> "evt8", timestamp |-> "T00008"]}

\* Events of a variant the domain does not have.
NewVariants ==
  {[kind |-> "Tagged", short |-> "k1", tag |-> "important", id |-> "evt9",
    timestamp |-> "T00009"]}

\* forgetful(n): what an old consumer is given of an event of the new type.
forgetful(n) == IF n.kind = "Tagged" THEN << >> ELSE <<n>>

FoldIdle ==
  /\ evs = << >>
  /\ st = s0
  /\ vw = v0

\* One more event is applied to the state and to the view.
Apply(e) ==
  /\ Len(evs) < MaxLen
  /\ evs' = Append(evs, e)
  /\ st' = evolve(st, e)
  /\ vw' = project(vw, e)
  /\ UNCHANGED <<pipelineVars, infraVars, lawVars, gateVars, tenantVars, storeVars, toolVars>>

\* Commands over two long URLs, with and without a custom code.
UrlCommands ==
  {Cmd("Create", l, k, "i1") : l \in {"http://a", "http://b"}, k \in {"k1", "k2", Undefined}}
  \cup [kind : {"Resolve", "Expire"}, short : {"k1", "k2"}, id : {"i2"}]

\* The events decide yields for c in the state reached so far are folded
\* into the state and into the view.
Decide(c) ==
  LET ev == decide(st, c, "r1", toISOString(Len(evs))) IN
  /\ Len(evs) + Len(ev) <= MaxLen
  /\ evs' = evs \o ev
  /\ st' = fold("evolve", st, ev)
  /\ vw' = fold("project", vw, ev)
  /\ UNCHANGED <<pipelineVars, infraVars, lawVars, gateVars, tenantVars, storeVars, toolVars>>

\* ------------------------------------------------ the idempotence gates
MaxFeed == 3         \* items in the sequence that is processed twice

ItemIds == {"1", "2"}

\* The n-th payload as an event of the domain and as a command of
\* verifyIdempotenceLaw, carrying the id it is delivered with.
AsEvent(id, n) ==
  IF n = 1 THEN Evt("Created", "k1", "http://a", id, "T00001")
  ELSE [kind |-> "Expired", short |-> "k1", id |-> id, timestamp |-> "T00002"]

AsVideoCommand(id, n) ==
  [id |-> id, kind |-> "CreateVideo",
   title |-> IF n = 1 THEN "Test Video 1" ELSE "Test Video 2"]

Items == [id : ItemIds, n : 1..2]

applyIdemByPayload(acc, e) ==
  IF [e EXCEPT !.id = ""] \in acc.payloads THEN acc
  ELSE [s |-> evolve(acc.s, e), seen |-> acc.seen \cup {e.id},
        payloads |-> acc.payloads \cup {[e EXCEPT !.id = ""]},
        applied |-> acc.applied + 1]

\* applyIdem of the keyed-idempotence law, for events that carry an id;
\* applied counts the events that reached evolve, payloads collects them.
applyIdem(acc, e) ==
  IF e.id \in acc.seen THEN acc
  ELSE [s |-> evolve(acc.s, e), seen |-> acc.seen \cup {e.id},
        payloads |-> acc.payloads \cup {[e EXCEPT !.id = ""]},
        applied |-> acc.applied + 1]

ProcessedKey(id) == "processed:" \o id

\* One turn of the loop of verifyIdempotenceLaw at clock value nowMs.
processCommand(run, command, nowMs) ==
  LET got == KvGet(run.kvStore, ProcessedKey(command.id), nowMs)
  IN IF Truthy(got.value) THEN [run EXCEPT !.kvStore = got.store]
     ELSE [videos |-> With(run.videos, command.id, [title |-> command.title]),
           kvStore |-> KvSet(got.store, ProcessedKey(command.id), "true", TTL, nowMs),
           processedCommands |-> run.processedCommands + 1]

NewGate ==
  [fed |-> << >>, pos |-> 0,
   acc |-> [s |-> s0, seen |-> {}, payloads |-> {}, applied |-> 0],
   run |-> [videos |-> EmptyObj, kvStore |-> EmptyObj, processedCommands |-> 0]]

\* An item goes through both gates.
Through(g, item) ==
  [g EXCEPT !.acc = applyIdem(@, AsEvent(item.id, item.n)),
            !.run = processCommand(@, AsVideoCommand(item.id, item.n), now * 1000)]

\* The next item of the sequence arrives for the first time.
Feed(item) ==
  /\ gate.pos = 0
  /\ Len(gate.fed) < MaxFeed
  /\ gate' = [Through(gate, item) EXCEPT !.fed = Append(@, item)]
  /\ UNCHANGED <<pipelineVars, infraVars, lawVars, foldVars, tenantVars, storeVars, toolVars>>

\* The next item of the second copy of the sequence arrives.
Redeliver ==
  /\ gate.pos < Len(gate.fed)
  /\ gate' = [Through(gate, gate.fed[gate.pos + 1]) EXCEPT !.pos = @ + 1]
  /\ UNCHANGED <<pipelineVars, infraVars, lawVars, foldVars, tenantVars, storeVars, toolVars>>

\* Time passes between two items.
GateTick ==
  /\ ticks < MaxTicks
  /\ ticks' = ticks + 1
  /\ now' = now + TickSeconds
  /\ UNCHANGED <<variant, hasKv, faults, started, rnd, db, kv, seen, invoked,
                 delivered, calls, marked, persistFailures, noops, http,
                 infraVars, lawVars, sideVars>>

\* ------------------------------------------------------ a second tenant
MaxOtherCalls == 2   \* handle calls of the second tenant's service

\* What the second tenant's ports hold: the rows of its inMemorySql, the
\* events passed to its inMemoryBus, and the events its publish left out.
NewTenant == [log |-> << >>, invoked |-> << >>, skipped |-> << >>]

\* handle(s0, c) of the second tenant's service, built by the same factory
\* without a cache: it shares no port with the first, and dedupeBy reads
\* and writes the __seen of the process.
OtherTenantHandle(c) ==
  LET events == decide(s0, c, "r0", toISOString(now))
      d == dedupeBy(seen, events[1])
  IN
  /\ Len(other.log) < MaxOtherCalls
  /\ Len(events) = 1
  /\ seen' = d.seen
  /\ other' = [log |-> Append(other.log, Row(events)),
               invoked |-> IF d.apply THEN Append(other.invoked, events[1])
                           ELSE other.invoked,
               skipped |-> IF d.apply THEN other.skipped
                           ELSE Append(other.skipped, events[1])]
  /\ UNCHANGED <<variant, hasKv, now, ticks, faults, started, rnd, db, kv,
                 invoked, delivered, calls, marked, persistFailures, noops, http,
                 infraVars, lawVars, foldVars, gateVars, storeVars, toolVars>>

\* ---------------------------------------------------------- inMemorySql
MaxStored == 3       \* events sent to the store

\* A statement is the sequence of its words; includes and equality are
\* those of the text, and toLowerCase is taken word by word.
SelectOne == <<"SELECT", "1">>

CreateEvents == <<"CREATE", "TABLE", "IF", "NOT", "EXISTS", "events", "(...)">>

InsertRow == <<"INSERT", "INTO", "events", "(id, timestamp, data)", "VALUES", "($1, $2, $3)">>

InsertData == <<"INSERT", "INTO", "events", "(data)", "VALUES", "($1)">>

InsertEvents == <<"insert", "into", "events", "(data)", "values", "($1)">>

InsertOutbox == <<"insert", "into", "outbox", "(data)", "values", "($1)">>

SelectAll == <<"SELECT", "*", "FROM", "events", "ORDER", "BY", "timestamp">>

SelectUpTo ==
  <<"SELECT", "*", "FROM", "events", "WHERE", "timestamp", "<=", "$1", "ORDER", "BY",
    "timestamp">>

Includes(sql, part) ==
  \E i \in 0..(Len(sql) - Len(part)) : SubSeq(sql, i + 1, i + Len(part)) = part

LowerWord(w) ==
  CASE w = "SELECT" -> "select" [] w = "FROM" -> "from" [] w = "INSERT" -> "insert"
    [] w = "INTO" -> "into" [] w = "VALUES" -> "values" [] w = "WHERE" -> "where"
    [] w = "ORDER" -> "order" [] w = "BY" -> "by" [] w = "CREATE" -> "create"
    [] w = "TABLE" -> "table" [] w = "IF" -> "if" [] w = "NOT" -> "not"
    [] w = "EXISTS" -> "exists" [] OTHER -> w

ToLowerCase(sql) == [i \in DOMAIN sql |-> LowerWord(sql[i])]

\* The word after the first word that matches `word` without regard to case.
After1(sql, word) ==
  LET low == ToLowerCase(sql)
      at == {i \in 1..(Len(sql) - 1) : low[i] = word}
  IN  IF at = {} THEN Undefined ELSE sql[(CHOOSE i \in at : \A j \in at : i <= j) + 1]

\* sql.match(/from\s+(\w+)/i) || sql.match(/into\s+(\w+)/i)
extractTableName(sql) ==
  IF After1(sql, "from") # Undefined THEN After1(sql, "from")
  ELSE IF After1(sql, "into") # Undefined THEN After1(sql, "into")
  ELSE "unknown"

NewSql == [events |-> << >>, outbox |-> << >>, tables |-> EmptyObj]

Gives(kind, rows, m) == [kind |-> kind, rows |-> rows, mem |-> m]

\* query(sql, params) of the store m at clock reading t: what it resolves
\* to (1, undefined or an array of rows) and the store afterwards.
query(m, sql, params, t) ==
  IF sql = SelectOne THEN Gives("one", << >>, m)
  ELSE IF sql \in {<<"begin">>, <<"commit">>, <<"rollback">>} THEN Gives("undefined", << >>, m)
  ELSE IF Includes(sql, <<"insert", "into", "events">>)
  THEN Gives("undefined", << >>,
             [m EXCEPT !.events = Append(@, [sql |-> sql, params |-> params, timestamp |-> t])])
  ELSE IF Includes(sql, <<"insert", "into", "outbox">>)
  THEN Gives("undefined", << >>,
             [m EXCEPT !.outbox = Append(@, [sql |-> sql, params |-> params, timestamp |-> t])])
  ELSE IF Includes(sql, <<"CREATE", "TABLE">>) \/ Includes(sql, <<"DROP", "TABLE">>)
  THEN Gives("undefined", << >>, m)
  ELSE IF Includes(ToLowerCase(sql), <<"select">>)
  THEN Gives("rows", IF extractTableName(sql) \in DOMAIN m.tables
                     THEN m.tables[extractTableName(sql)] ELSE << >>, m)
  ELSE Gives("rows", << >>, m)

\* ------------------------------- createEventSourcingHandler, createCQRSHandler
\* replay(): events.reduce(evolve, initialState) over the rows of the query.
replay(m, t) == fold("evolve", s0, query(m, SelectAll, << >>, t).rows)

\* stateAt(timestamp)
stateAt(m, timestamp, t) == fold("evolve", s0, query(m, SelectUpTo, <<timestamp>>, t).rows)

\* syncReadModel()
syncReadModel(m, t) == fold("project", v0, query(m, SelectAll, << >>, t).rows)

StoreEvents ==
  {e \in EventPool : e.kind \in {"Created", "Clicked", "Expired"} /\ e.short = "k1"}

Timestamps == {e.timestamp : e \in StoreEvents}

NoAnswer == << >>

StoreIdle ==
  /\ mem = NewSql
  /\ stored = << >>
  /\ es = [replay |-> NoAnswer, at |-> NoAnswer]
  /\ cq = [s |-> s0, persisted |-> << >>, published |-> << >>, sync |-> NoAnswer]

NotStoreVars == <<pipelineVars, infraVars, lawVars, foldVars, gateVars, tenantVars, toolVars>>

\* sql.query('CREATE TABLE IF NOT EXISTS events (...)')
CreateTable ==
  /\ mem' = query(mem, CreateEvents, << >>, now).mem
  /\ UNCHANGED <<stored, es, cq, NotStoreVars>>

\* sql.query('INSERT INTO events (id, timestamp, data) VALUES ($1, $2, $3)',
\*           [id, event.timestamp, event])
InsertDirect(e) ==
  /\ Len(stored) < MaxStored
  /\ mem' = query(mem, InsertRow, <<e.id, e.timestamp, e>>, now).mem
  /\ stored' = Append(stored, e)
  /\ UNCHANGED <<es, cq, NotStoreVars>>

\* persistAndOutbox(sql)(events) on this store; none of its statements fails.
PersistOutbox(events) ==
  LET m1 == query(mem, <<"begin">>, << >>, now).mem
      m2 == query(m1, InsertEvents, <<Row(events)>>, now).mem
      m3 == query(m2, InsertOutbox, <<Row(events)>>, now).mem
  IN
  /\ Len(stored) < MaxStored
  /\ mem' = query(m3, <<"commit">>, << >>, now).mem
  /\ stored' = stored \o events
  /\ UNCHANGED <<es, cq, NotStoreVars>>

\* replay() is called and resolves.
Replay ==
  /\ es' = [es EXCEPT !.replay = <<[state |-> replay(mem, now), log |-> stored]>>]
  /\ UNCHANGED <<mem, stored, cq, NotStoreVars>>

\* stateAt(timestamp) is called and resolves.
StateAt(timestamp) ==
  /\ es' = [es EXCEPT !.at = <<[state |-> stateAt(mem, timestamp, now),
                                timestamp |-> timestamp, log |-> stored]>>]
  /\ UNCHANGED <<mem, stored, cq, NotStoreVars>>

\* command(s, c) of the CQRS handler, called with the state the write
\* side last returned: one event decided, inserted and published.
Command(c) ==
  LET events == decide(cq.s, c, "r0", toISOString(now)) IN
  /\ Len(stored) < MaxStored
  /\ Len(events) = 1
  /\ mem' = query(mem, InsertData, <<Stringify(events[1])>>, now).mem
  /\ stored' = Append(stored, events[1])
  /\ cq' = [cq EXCEPT !.s = fold("evolve", cq.s, events),
                      !.persisted = @ \o events,
                      !.published = @ \o events]
  /\ UNCHANGED <<es, NotStoreVars>>

\* syncReadModel() is called and resolves.
SyncReadModel ==
  /\ cq' = [cq EXCEPT !.sync = <<[view |-> syncReadModel(mem, now), log |-> cq.persisted]>>]
  /\ UNCHANGED <<mem, stored, es, NotStoreVars>>

\* ------------------------------------------------------------ pullbackJoin
MaxRows == 2         \* rows in each collection given to pullbackJoin

\* The join of the pullback law: the pair.
join(a, b) == <<a, b>>

matchingAll(a, bs) == [i \in DOMAIN bs |-> join(a, bs[i])]

\* bs.filter(b => a.key === b.key).map(b => join(a, b))
matching(a, bs) ==
  LET kept == SelectSeq(bs, LAMBDA b : a.key = b.key)
  IN  [i \in DOMAIN kept |-> join(a, kept[i])]

RECURSIVE pullbackJoinUnfiltered(_, _)
pullbackJoinUnfiltered(as, bs) ==
  IF as = << >> THEN << >>
  ELSE matchingAll(Head(as), bs) \o pullbackJoinUnfiltered(Tail(as), bs)

\* as.flatMap(a => ...)
RECURSIVE pullbackJoin(_, _)
pullbackJoin(as, bs) ==
  IF as = << >> THEN << >>
  ELSE matching(Head(as), bs) \o pullbackJoin(Tail(as), bs)

LeftRows == [key : {"A", "B"}, x : 1..2]

RightRows == [key : {"A", "B"}, y : 1..2]

\* ------------------------------------------------------ withMetrics, R and O
MaxValue == 4        \* the largest argument of a wrapped function

Values == 0..MaxValue

\* The functions that are wrapped; guard throws on odd arguments.
Fns == {"inc", "twice", "guard"}

\* f(a), as the value it returns or the error it throws.
Invoke(f, a) ==
  CASE f = "inc" -> Gave((a + 1) % (MaxValue + 1))
    [] f = "twice" -> Gave((2 * a) % (MaxValue + 1))
    [] f = "guard" -> IF a % 2 = 1 THEN Threw("odd") ELSE Gave(a)

\* A call through a wrapper: how the promise settles, and the calls of f
\* that were made.
Settled(out, inner) == [out |-> out, inner |-> inner]

\* R(f)(a): async (...a) => f(...a); a throw of f rejects the promise.
R(f, a) == Settled(Invoke(f, a), <<[f |-> f, a |-> a]>>)

withMetricsSwallowing(name, f, a) ==
  LET r == R(f, a) IN
  IF r.out.ok THEN Settled(Gave(r.out.value), r.inner)
  ELSE Settled(Gave(0), r.inner)

\* withMetrics(name, f)(a): try { const r = await f(...a); return r }
\* catch (err) { throw err }; the counters and the histogram are comments.
withMetrics(name, f, a) ==
  LET r == R(f, a) IN
  IF r.out.ok THEN Settled(Gave(r.out.value), r.inner)
  ELSE Settled(Threw(r.out.error), r.inner)

\* O(name, f)(a): try { return await f(...a) } finally { }
O(name, f, a) ==
  LET r == R(f, a) IN Settled(r.out, r.inner)

Wrapped(w, name, f, a) ==
  IF w = "withMetrics" THEN withMetrics(name, f, a) ELSE O(name, f, a)

\* await w("g", g)(await w("f", f)(a)): a rejection of the first ends it.
EachWrapped(w, f, g, a) ==
  LET first == Wrapped(w, "f", f, a) IN
  IF ~first.out.ok THEN first
  ELSE LET second == Wrapped(w, "g", g, first.out.value)
       IN  Settled(second.out, first.inner \o second.inner)

\* await w("g.f", a => g(f(a)))(a)
OnceWrapped(w, f, g, a) ==
  LET first == R(f, a)
      both == IF ~first.out.ok THEN first
              ELSE Settled(R(g, first.out.value).out,
                           first.inner \o R(g, first.out.value).inner)
  IN  IF w = "withMetrics"
      THEN IF both.out.ok THEN Settled(Gave(both.out.value), both.inner)
           ELSE Settled(Threw(both.out.error), both.inner)
      ELSE both

NoTelemetry == [kind |-> "none"]

\* A function is called through a wrapper and, for comparison, bare.
CallWrapped(w, f, a) ==
  /\ tele' = [kind |-> "call", w |-> w, f |-> f, a |-> a,
              wrapped |-> Wrapped(w, f, f, a), bare |-> Invoke(f, a)]
  /\ UNCHANGED <<joinVars, healthVars, NotToolVars>>

\* Two functions are composed wrapped one by one, and wrapped as one.
ComposeWrapped(w, f, g, a) ==
  /\ tele' = [kind |-> "compose", w |-> w, f |-> f, g |-> g, a |-> a,
              each |-> EachWrapped(w, f, g, a), once |-> OnceWrapped(w, f, g, a)]
  /\ UNCHANGED <<joinVars, healthVars, NotToolVars>>

\* ------------------------------------------------------------ healthCheck
MaxChecks == 2       \* healthCheck calls

\* How await ports.sql.query('SELECT 1') settles: resolved, rejected with
\* an Error, or rejected with a value that is not an Error.
Probes ==
  {[ok |-> TRUE, thrown |-> "nothing", text |-> "", num |-> 0],
   [ok |-> FALSE, thrown |-> "Error", text |-> "connection refused", num |-> 0],
   [ok |-> FALSE, thrown |-> "string", text |-> "down", num |-> 0],
   [ok |-> FALSE, thrown |-> "number", text |-> "", num |-> 503],
   [ok |-> FALSE, thrown |-> "undefined", text |-> "", num |-> 0]}

\* error instanceof Error ? error.message : String(error)
ErrorText(probe) ==
  CASE probe.thrown = "Error" -> probe.text
    [] probe.thrown = "string" -> probe.text
    [] probe.thrown = "number" -> ToString(probe.num)
    [] probe.thrown = "undefined" -> "undefined"

healthCheckRethrowing(probe, t) ==
  IF probe.ok
  THEN Gave([status |-> "healthy", error |-> Undefined, timestamp |-> toISOString(t)])
  ELSE Threw(ErrorText(probe))

\* healthCheck() of createGenericService and of compose, at clock reading t.
healthCheck(probe, t) ==
  IF probe.ok
  THEN Gave([status |-> "healthy", error |-> Undefined, timestamp |-> toISOString(t)])
  ELSE Gave([status |-> "unhealthy", error |-> ErrorText(probe),
             timestamp |-> toISOString(t)])

\* healthCheck is called; the store settles the probe.
HealthCheck(probe) ==
  /\ Len(health) < MaxChecks
  /\ health' = Append(health, [probe |-> probe, at |-> now,
                               returned |-> healthCheck(probe, now)])
  /\ UNCHANGED <<joinVars, wrapVars, NotToolVars>>

JoinIdle ==
  /\ left = << >>
  /\ right = << >>
  /\ joined = << >>

ToolIdle == JoinIdle /\ tele = NoTelemetry /\ health = << >>

\* pullbackJoin is called with one more row in as.
JoinLeft(a) ==
  /\ Len(left) < MaxRows
  /\ left' = Append(left, a)
  /\ joined' = pullbackJoin(left', right)
  /\ UNCHANGED <<right, wrapVars, healthVars, NotToolVars>>

\* pullbackJoin is called with one more row in bs.
JoinRight(b) ==
  /\ Len(right) < MaxRows
  /\ right' = Append(right, b)
  /\ joined' = pullbackJoin(left, right')
  /\ UNCHANGED <<left, wrapVars, healthVars, NotToolVars>>

PipelineInit ==
  /\ variant \in {"generic", "handlers"}
  /\ hasKv \in BOOLEAN
  /\ now = 0
  /\ ticks = 0
  /\ faults = 0
  /\ started = 0
  /\ rnd = 0
  /\ db = EmptyDb
  /\ kv = EmptyObj
  /\ seen = {}
  /\ invoked = << >>
  /\ delivered = << >>
  /\ calls = [k \in Slots |-> IdleCall]
  /\ marked = [i \in CmdIds |-> -1]
  /\ persistFailures = 0
  /\ noops = {}
  /\ http = [k \in Slots |-> IdleHttp]

SideIdle == FoldIdle /\ gate = NewGate /\ other = NewTenant /\ StoreIdle /\ ToolIdle

Init == PipelineInit /\ InfraInit /\ LawIdle /\ SideIdle

Step(k) ==
  \/ KvGetOk(k) \/ KvGetFail(k)
  \/ SqlOk(k) \/ SqlFail(k) \/ SqlRollback(k)
  \/ KvSetOk(k) \/ KvSetFail(k)
  \/ PublishSkip(k) \/ PublishOk(k) \/ PublishFail(k)

\* handle called directly: no httpHandle is involved.
Next ==
  \/ \E k \in Slots, s \in InputStates, c \in Commands : Start(k, s, c)
  \/ \E k \in Slots : Step(k)
  \/ Tick

Spec == Init /\ [][Next]_vars

\* httpHandle called by a serial caller.
HttpNext ==
  \/ \E k \in Slots, s \in InputStates, raw \in UrlRaws \cup CommandRaws :
       raw \in HttpRaws(variant) /\ HttpStart(k, s, raw)
  \/ \E k \in Slots : Step(k)
  \/ \E k \in Slots : HttpReturn(k)

HttpSpec == Init /\ [][HttpNext]_vars

\* handle called by callers that do not wait for each other.
ConcurrentCommands ==
  {Cmd("Create", "http://a", "k1", "i1"), Cmd("Create", "http://b", "k1", "i2"),
   [kind |-> "Expire", short |-> "k1", id |-> "i2"]}

ConcurrentStates == {s0, fold("evolve", s0, <<[kind |-> "Created", short |-> "k1", long |-> "http://a"]>>)}

ConcurrentNext ==
  \/ \E k \in Slots, s \in ConcurrentStates, c \in ConcurrentCommands :
       ConcurrentStart(k, s, c)
  \/ \E k \in Slots : Step(k)

ConcurrentInit == Init /\ variant = "generic"

ConcurrentSpec == ConcurrentInit /\ [][ConcurrentNext]_vars

\* Two tenants of createMultiTenantRoot, each called serially.
TenantNext ==
  \/ \E k \in Slots, s \in ConcurrentStates, c \in ConcurrentCommands : Start(k, s, c)
  \/ \E k \in Slots : Step(k)
  \/ \E c \in ConcurrentCommands : OtherTenantHandle(c)

TenantSpec == Init /\ [][TenantNext]_vars

\* makeHttpHandle called by a serial caller with requests for short codes
\* that may be taken.
CollisionRaws(v) == HttpRaws(v) \cup TakenRaws

CollisionStates ==
  {s0,
   fold("evolve", s0, <<[kind |-> "Created", short |-> "k1", long |-> "http://a"]>>),
   fold("evolve", s0, <<[kind |-> "Created", short |-> genShort("http://b"),
                         long |-> "http://a"]>>)}

CollisionNext ==
  \/ \E k \in Slots, s \in CollisionStates, raw \in UrlRaws \cup CommandRaws \cup TakenRaws :
       raw \in CollisionRaws(variant) /\ HttpStart(k, s, raw)
  \/ \E k \in Slots : Step(k)
  \/ \E k \in Slots : HttpReturn(k)

CollisionSpec == Init /\ [][CollisionNext]_vars

\* A client of the test double; no handler is involved.
InfraStart == Init /\ variant = "generic" /\ ~hasKv

InfraSpec == InfraStart /\ [][InfraNext]_vars

\* Clients of one inMemorySql: writers of its events table, an event-sourcing
\* handler and a CQRS handler.
StoreNext ==
  \/ CreateTable
  \/ \E e \in StoreEvents : InsertDirect(e)
  \/ \E e \in StoreEvents : PersistOutbox(<<e>>)
  \/ Replay
  \/ \E timestamp \in Timestamps : StateAt(timestamp)
  \/ \E c \in ConcurrentCommands : Command(c)
  \/ SyncReadModel

StoreSpec == InfraStart /\ [][StoreNext]_vars

\* A specification is verified, a service is created from it and called.
LawStart == PipelineInit /\ variant = "generic" /\ InfraInit /\ LawInit /\ SideIdle

LawNext ==
  \/ VerifyLaws
  \/ CreateService
  \/ \E i \in 1..MaxVerifyCalls : OutboxStep(i)
  \/ \E k \in Slots, s \in {s0}, c \in ServiceCommands : ServiceHandle(k, s, c)
  \/ \E k \in Slots : Step(k)

LawSpec == LawStart /\ [][LawNext]_vars

\* Events are applied to s0 and v0 one after the other.
FoldNext == \E e \in EventPool : Apply(e)

FoldSpec == InfraStart /\ [][FoldNext]_vars

\* Events of the extended type are applied to s0 and v0 one after the other.
SchemaNext == \E e \in EventPool \cup NewVariants : Apply(e)

SchemaSpec == InfraStart /\ [][SchemaNext]_vars

\* Commands are decided and their events folded, starting from s0.
ReachNext == \E c \in UrlCommands : Decide(c)

ReachSpec == InfraStart /\ [][ReachNext]_vars

\* pullbackJoin is called on collections that grow.
JoinNext ==
  \/ \E a \in LeftRows : JoinLeft(a)
  \/ \E b \in RightRows : JoinRight(b)

JoinSpec == InfraStart /\ [][JoinNext]_vars

\* Functions are called through the telemetry wrappers.
WrapNext ==
  \/ \E w \in {"withMetrics", "O"}, f \in Fns, a \in Values : CallWrapped(w, f, a)
  \/ \E w \in {"withMetrics", "O"}, f \in Fns, g \in Fns, a \in Values :
       ComposeWrapped(w, f, g, a)

WrapSpec == InfraStart /\ [][WrapNext]_vars

\* healthCheck is called while the clock runs.
HealthNext ==
  \/ \E probe \in Probes : HealthCheck(probe)
  \/ Tick

HealthSpec == InfraStart /\ [][HealthNext]_vars

\* A sequence of items is processed and then processed again while the
\* clock runs.
GateNext ==
  \/ \E item \in Items : Feed(item)
  \/ Redeliver
  \/ GateTick

GateSpec == InfraStart /\ [][GateNext]_vars

\* ------------------------------------------------------------ properties
HasOp(trace, name) == \E i \in 1..Len(trace) : trace[i].op = name

OnlyOps(trace, names) == \A i \in 1..Len(trace) : trace[i].op \in names

SqlOps == {"begin", "insert into events", "insert into outbox", "commit", "rollback"}

FailedSql(trace) == \E i \in 1..Len(trace) : trace[i].op \in SqlOps /\ ~trace[i].ok

Last(seq) == seq[Len(seq)]

\* The cache lookup of call k resolves in this step, for a command whose id
\* was marked as processed by an earlier handle.
LooksUpMarked(k) ==
  /\ calls[k].pc = "kvGet"
  /\ calls'[k].pc # "kvGet"
  /\ faults' = faults
  /\ Truthy(calls[k].c.id)
  /\ marked[calls[k].c.id] >= 0

\* The step returns the input state of call k and has no other effect.
ReturnsUntouched(k) ==
  /\ calls'[k].pc = "done"
  /\ calls'[k].result = calls[k].s
  /\ db' = db
  /\ invoked' = invoked
  /\ delivered' = delivered
  /\ seen' = seen

\* C1, as claimed: once handle has committed the events of a command with
\* id i and written cmd:i, every later handle of a command with id i returns
\* its input state and writes and publishes nothing (taken here for lookups
\* that the cache port answers at all).
C1_DuplicateAlwaysNoOp ==
  [][\A k \in Slots : LooksUpMarked(k) => ReturnsUntouched(k)]_vars

\* C1, amended: the same, for every later handle whose cache lookup is
\* answered no later than TTL seconds after cmd:i was last written.
C1_DuplicateNoOpWithinTtl ==
  [][\A k \in Slots :
       LooksUpMarked(k) /\ now <= marked[calls[k].c.id] + TTL => ReturnsUntouched(k)]_vars

C1_Witness ==
  \E k \in Slots :
    /\ calls[k].pc = "done"
    /\ ~calls[k].decided
    /\ Truthy(calls[k].c.id)
    /\ marked[calls[k].c.id] >= 0
    /\ calls[k].trace = <<Op("kv.get", TRUE)>>
    /\ calls[k].result = calls[k].s

InTable(rows, row) == \E i \in 1..Len(rows) : rows[i] = row

\* C2: bus.publish is invoked only by a handle whose commit has succeeded,
\* with an event of the batch that the event log and the outbox then hold;
\* a handle that ends without a successful commit has published nothing.
C2_PublishAfterCommit ==
  [][/\ invoked' # invoked =>
          \E k \in Slots :
            /\ calls[k].pc = "publish"
            /\ calls[k].committed
            /\ calls[k].idx \in 1..Len(calls[k].events)
            /\ invoked' = Append(invoked, calls[k].events[calls[k].idx])
            /\ InTable(db.events, Row(calls[k].events))
            /\ InTable(db.outbox, Row(calls[k].events))
     /\ \A k \in Slots :
          AtRest(calls'[k]) /\ ~calls'[k].committed => ~HasOp(calls'[k].trace, "publish")
    ]_vars

C2_Witness ==
  \E k \in Slots :
    /\ calls[k].pc = "done"
    /\ calls[k].committed
    /\ HasOp(calls[k].trace, "publish")
    /\ invoked # << >>

\* C5: bus.publish is invoked at most once for any event id.
C5_PublishOncePerId ==
  \A i, j \in 1..Len(invoked) :
    i # j /\ Truthy(invoked[i].id) => invoked[i].id # invoked[j].id

\* A handle that committed an event whose id had been seen, and finished
\* without invoking bus.publish.
C5_Witness ==
  \E k \in Slots :
    /\ calls[k].pc = "done"
    /\ calls[k].committed
    /\ ~HasOp(calls[k].trace, "publish")
    /\ \E i \in 1..Len(invoked) : invoked[i].id = calls[k].events[1].id

\* C6: a handle whose command fails validate has failed with the
\* invalid-command error, has not decided and has issued no port operation.
C6_InvalidCommandNoEffect ==
  \A k \in Slots :
    calls[k].pc # "idle" /\ ~validate(calls[k].c) =>
      /\ calls[k].pc = "failed"
      /\ calls[k].err = InvalidCommand
      /\ ~calls[k].decided
      /\ calls[k].trace = << >>
      /\ Len(db.events) = calls[k].ev0
      /\ Len(db.outbox) = calls[k].ob0

C6_Witness ==
  \E k \in Slots :
    /\ calls[k].pc = "failed"
    /\ calls[k].err = InvalidCommand
    /\ ~validate(calls[k].c)
    /\ started = 2

\* C7: a handle that returned after a non-empty decision returned
\* fold(evolve, s, decide(s, c)), and the row it wrote to the event log and
\* to the outbox is decide(s, c), in order.
C7_ReturnsFoldAndLogsDecision ==
  \A k \in Slots :
    calls[k].pc = "done" /\ calls[k].decided /\ calls[k].events # << >> =>
      LET d == decide(calls[k].s, calls[k].c, calls[k].rndEvt, toISOString(calls[k].ts)) IN
      /\ calls[k].result = fold("evolve", calls[k].s, d)
      /\ Len(db.events) > calls[k].ev0
      /\ Len(db.outbox) > calls[k].ob0
      /\ Last(db.events) = Row(d)
      /\ Last(db.outbox) = Row(d)
      /\ variant = "generic" =>
           /\ Len(db.events) = calls[k].ev0 + 1
           /\ Len(db.outbox) = calls[k].ob0 + 1

C7_Witness ==
  \E k \in Slots :
    /\ calls[k].pc = "done"
    /\ calls[k].decided
    /\ calls[k].events # << >>
    /\ calls[k].result # calls[k].s
    /\ Last(db.events) = Row(calls[k].events)

\* C8: a handle whose decision is empty has returned its input state, has
\* issued no store statement, no publish and no cache write, and has left no
\* cmd:<id> entry behind.
C8_EmptyDecisionNoEffect ==
  \A k \in Slots :
    calls[k].decided /\ calls[k].events = << >> =>
      /\ calls[k].pc = "done"
      /\ calls[k].result = calls[k].s
      /\ OnlyOps(calls[k].trace, {"kv.get"})
      /\ Len(db.events) = calls[k].ev0
      /\ Len(db.outbox) = calls[k].ob0
      /\ KvKey(calls[k].cmdId) \notin DOMAIN kv

\* A command id that once returned on an empty decision is processed by a
\* later handle: its events are committed.
C8_Witness ==
  \E k \in Slots :
    /\ hasKv
    /\ calls[k].pc = "done"
    /\ calls[k].committed
    /\ calls[k].c.id \in noops

\* The error raised by the statement of the trace that failed.
RaisedBy(trace) ==
  LET i == CHOOSE j \in 1..Len(trace) : trace[j].op \in SqlOps /\ ~trace[j].ok
  IN  SqlError(trace[i].op)

\* C3, as claimed: a handle that failed in the persist step has left the
\* event log and the outbox as they were, with nothing pending in the store,
\* and the two tables never hold different batches.
C3_PersistAtomic ==
  /\ \A k \in Slots :
       calls[k].pc = "failed" /\ FailedSql(calls[k].trace) =>
         /\ db.staged = << >>
         /\ Len(db.events) = calls[k].ev0
         /\ Len(db.outbox) = calls[k].ob0
  /\ db.events = db.outbox

TxEnded(trace) ==
  \A i \in 1..Len(trace) :
    trace[i] = Op("begin", TRUE) =>
      \E j \in (i + 1)..Len(trace) : trace[j].ok /\ trace[j].op \in {"commit", "rollback"}

\* C10, as claimed: when handle has returned or thrown, every transaction
\* it began has been ended by a commit or a rollback.
C10_EveryBeginEnded ==
  \A k \in Slots : AtRest(calls[k]) => TxEnded(calls[k].trace)

\* ------------------------------------------- a caller that retries failures
\* The caller of the at-least-once contract: after a failed handle it calls
\* handle again with the same state and the same command, and only starts
\* on a new command when the last call has returned.
RetryCommands == {c \in Commands : c.kind = "Create" /\ Truthy(c.id)}

Pending == \E k \in Slots : calls[k].pc = "failed"

FreshStart(k, s, c) ==
  /\ ~Pending
  /\ Start(k, s, c)

RetryStart(k) ==
  /\ calls[k].pc = "failed"
  /\ Serial
  /\ Begin(k, calls[k].s, calls[k].c)
  /\ UNCHANGED <<variant, hasKv, now, ticks, faults, started, db, kv, seen,
                 invoked, delivered, marked, persistFailures, http,
                 infraVars, lawVars, sideVars>>

Progress == \E k \in Slots : Step(k)

Retry == \E k \in Slots : RetryStart(k)

NextRetry ==
  \/ \E k \in Slots, s \in InputStates, c \in RetryCommands : FreshStart(k, s, c)
  \/ Retry
  \/ Progress

\* Every effect handle awaits settles, and the caller does retry; port
\* failures are bounded by MaxFaults, so the ports eventually stop failing.
RetrySpec ==
  Init /\ [][NextRetry]_vars /\ WF_vars(Progress) /\ WF_vars(Retry)

CommittedId(i) ==
  \E r \in 1..Len(db.events) : \E j \in 1..Len(db.events[r]) : db.events[r][j].id = i

DeliveredId(i) == \E j \in 1..Len(delivered) : delivered[j].id = i

\* C4, as claimed: every event committed to the event log is eventually
\* accepted by the bus, when failed calls are retried and the ports
\* eventually stop failing.
C4_AtLeastOnce == \A i \in CmdIds : CommittedId(i) ~> DeliveredId(i)

\* ------------------------------------------------- properties of httpHandle
\* C11: no httpHandle invocation ends by throwing, and every one that has
\* returned carries a status code in its result, whichever of normalize,
\* validate, the store, the cache or the bus failed.
C11_HttpNeverThrows ==
  \A k \in Slots :
    /\ http[k].pc # "thrown"
    /\ http[k].pc = "returned" => http[k].out.result.status \in {200, 400, 500}

\* An httpHandle that returned after the store failed under it.
C11_Witness ==
  \E k \in Slots :
    /\ http[k].pc = "returned"
    /\ http[k].failed = "handle"
    /\ FailedSql(calls[k].trace)
    /\ http[k].out.result.status # 0

\* C12, as claimed: an httpHandle whose command failed (in normalize or in
\* handle) has returned success = false with an error message and a status,
\* and the input state.
C12_FailureIsStructured ==
  \A k \in Slots :
    http[k].pc = "returned" /\ http[k].failed # "none" =>
      /\ http[k].out.result.success = "false"
      /\ http[k].out.result.error # Undefined
      /\ http[k].out.result.status # 0
      /\ http[k].out.state = http[k].s

\* --------------------------------------- properties of the outbox test double
\* The step is a call of op on a transaction the test double holds.
Calls(op, txId) ==
  /\ infraOps' # infraOps
  /\ lastOp' = Called(op, txId)
  /\ txId \in DOMAIN infra.transactions

NoneRolledBack(events) == \A i \in 1..Len(events) : events[i].inc \notin rolledBack

\* C19: a commit publishes exactly the events staged in the outbox of its
\* transaction, in order; a rollback publishes nothing; and no event staged
\* in a transaction that was rolled back uncommitted is ever published or
\* observed, whatever is called afterwards.
C19_OutboxAtomicity ==
  [][/\ \A txId \in TxIds :
          /\ Calls("commit", txId) =>
                getPublishedEvents(infra') =
                  getPublishedEvents(infra) \o infra.transactions[txId].outbox
          /\ Calls("rollback", txId) =>
                /\ getPublishedEvents(infra') = getPublishedEvents(infra)
                /\ infra'.received = infra.received
     /\ NoneRolledBack(getPublishedEvents(infra))'
     /\ NoneRolledBack(infra.received)'
    ]_vars

\* A batch is published by a commit after a staged batch was rolled back.
C19_Witness ==
  /\ rolledBack # {}
  /\ lastOp.op = "commit"
  /\ Len(getPublishedEvents(infra)) = 2
  /\ \E i \in rolledBack : inc[lastOp.txId] > i

\* C20, as claimed: committing a transaction that is already committed
\* shows the subscriber no event again.
C20_RedeliveryNoDuplicate ==
  [][\A txId \in TxIds :
       Calls("commit", txId) /\ infra.transactions[txId].committed =>
         infra'.received = infra.received]_vars

\* ------------------------------------------------ properties of law verification
AnyFailed(results) == \E i \in DOMAIN results : ~results[i].passed

LawIndex(law) == CHOOSE n \in 1..12 : LawNames[n] = law

NoHandleExecuted ==
  /\ started = 0
  /\ \A k \in Slots : AtRest(calls[k]) /\ http[k] = IdleHttp
  /\ db = EmptyDb
  /\ delivered = << >>

\* C13: a service exists only after a verification run in which every law
\* passed; when the verification made by createGenericService throws, no
\* service exists, and without a service no handle or httpHandle has run.
C13_ServiceOnlyIfVerified ==
  /\ service = "up" =>
        /\ lawSpec.lawsVerified
        /\ suite # << >> /\ suite[1].allPassed
        /\ raised = << >>
  /\ service = "refused" => raised # << >> /\ ~lawSpec.lawsVerified
  /\ service # "up" => NoHandleExecuted

\* createGenericService threw the error of a failed verification.
C13_Witness ==
  /\ service = "refused"
  /\ raised # << >> /\ raised[1].count > 0
  /\ verifyCalls = MaxVerifyCalls

\* C14: a call of verifyLaws on a verified specification runs no check and
\* changes nothing; the flag becomes set only in a call that ran the checks
\* and threw nothing; a call on an unverified specification runs the checks,
\* also after a run that failed.
C14_VerifyLawsIdempotent ==
  [][verifyCalls' # verifyCalls =>
       /\ lawSpec.lawsVerified =>
             UNCHANGED <<lawSpec, verifyRuns, suite, raised, checks>>
       /\ ~lawSpec.lawsVerified =>
             /\ verifyRuns' = verifyRuns + 1
             /\ Len(checks') = Len(checks) + 1
             /\ lawSpec'.lawsVerified <=> raised' = << >>
    ]_vars

\* A second call on a verified specification has returned.
C14_Witness ==
  /\ lawSpec.lawsVerified
  /\ verifyCalls = 2
  /\ verifyRuns = 1

\* C15: every suite has exactly the 12 results, in law order, whichever of
\* them failed; totalCount is 12, passedCount counts the passed results and
\* allPassed is true exactly when all of them passed.
C15_NoShortCircuit ==
  suite # << >> =>
    /\ Len(suite[1].results) = 12
    /\ [i \in 1..12 |-> suite[1].results[i].law] = LawNames
    /\ suite[1].totalCount = 12
    /\ suite[1].passedCount =
         Cardinality({i \in 1..12 : suite[1].results[i].passed})
    /\ suite[1].allPassed <=> ~AnyFailed(suite[1].results)

\* A suite whose first result failed and some later one passed.
C15_Witness ==
  /\ suite # << >>
  /\ ~suite[1].results[1].passed
  /\ ~suite[1].results[4].passed
  /\ suite[1].results[7].passed
  /\ suite[1].passedCount = 10

\* C16: the run threw exactly when some result failed; the one error has a
\* line, with the description and the recorded error, for each failed law in
\* order, and none for a law that passed.
C16_EnforceLawsThrowsIffFailed ==
  suite # << >> =>
    /\ raised # << >> <=> AnyFailed(suite[1].results)
    /\ Len(raised) <= 1
    /\ raised # << >> =>
         /\ \A i, j \in DOMAIN raised[1].lines :
              i < j => LawIndex(raised[1].lines[i].law) < LawIndex(raised[1].lines[j].law)
         /\ \A i \in DOMAIN raised[1].lines : \E n \in 1..12 :
              /\ raised[1].lines[i].law = LawNames[n]
              /\ ~suite[1].results[n].passed
              /\ raised[1].lines[i].description = suite[1].results[n].description
              /\ raised[1].lines[i].error = suite[1].results[n].error
         /\ \A n \in 1..12 : ~suite[1].results[n].passed =>
              \E i \in DOMAIN raised[1].lines : raised[1].lines[i].law = LawNames[n]
         /\ raised[1].count = Len(raised[1].lines)

\* An error that lists some laws and omits laws that passed between them.
C16_Witness ==
  /\ raised # << >>
  /\ raised[1].count = 2
  /\ raised[1].lines[1].law = "1. Purity"
  /\ raised[1].lines[2].law = "4. CQRS Commutativity"
  /\ raised[1].lines[2].error = ProjectThrew

\* C17, as claimed: once a specification whose decide is not deterministic
\* has been through verifyLaws, it is not verified and the error raised
\* names Law 1 (Purity).
C17_ImpureDecideFailsPurity ==
  verifyCalls > 0 /\ ~lawSpec.decidePure =>
    /\ ~lawSpec.lawsVerified
    /\ raised # << >>
    /\ \E i \in DOMAIN raised[1].lines : raised[1].lines[i].law = "1. Purity"

\* C18, as claimed: when a suite has been aggregated, the outbox check its
\* run started has returned, and Law 5 is passed only if it returned true.
C18_Law5IsOutboxOutcome ==
  suite # << >> =>
    /\ checks # << >>
    /\ checks[Len(checks)].result # "pending"
    /\ suite[1].results[5].passed => checks[Len(checks)].result = "true"

\* ------------------------------------------------- properties of the domain
Concerns(e, k) == "short" \in DOMAIN e /\ e.short = k

Of(events, k) == SelectSeq(events, LAMBDA e : Concerns(e, k))

LongsOf(events) ==
  {events[i].long : i \in {j \in DOMAIN events : "long" \in DOMAIN events[j]}}

\* C27: for the events applied so far and every short code, the read model
\* resolves the code to what the state resolves it to.
C27_CqrsCommutes ==
  \A k \in ShortKeys :
    queries(fold("project", v0, evs)).resolveUrl[k]
      = deriveView(fold("evolve", s0, evs)).resolveUrl[k]

\* A code was created and expired while another code still resolves.
C27_Witness ==
  /\ \E i \in DOMAIN evs : evs[i].kind = "Expired" /\ evs[i].short = "k1"
  /\ \E i \in DOMAIN evs : evs[i].kind = "Created" /\ evs[i].short = "k1"
  /\ queries(vw).resolveUrl["k1"] = Null
  /\ queries(vw).resolveUrl["k2"] = "http://b"

\* C28: however the events applied so far are split into xs ++ ys, folding
\* ys from the fold of xs gives the fold of the whole, for evolve from s0
\* and for project from v0.
C28_FoldAssociative ==
  \A n \in 0..Len(evs) :
    LET xs == SubSeq(evs, 1, n)
        ys == SubSeq(evs, n + 1, Len(evs))
    IN /\ fold("evolve", fold("evolve", s0, xs), ys) = fold("evolve", s0, evs)
       /\ fold("project", fold("project", v0, xs), ys) = fold("project", v0, evs)

\* Three or more events that changed both the state and the click counts.
C28_Witness ==
  /\ Len(evs) >= 3
  /\ st.version >= 2
  /\ \E i \in DOMAIN vw.clicks : vw.clicks[i].clicks > 0

\* C29: when the events applied so far are an interleaving of a sequence A
\* about k1 and a sequence B about k2 with no long URL in common, the
\* byShort entry and the active membership of each code are those that its
\* own sequence alone produces, and so the same for every interleaving.
C29_IndependentAggregatesCommute ==
  LET A == Of(evs, "k1")
      B == Of(evs, "k2")
      s == fold("evolve", s0, evs)
  IN Len(A) + Len(B) = Len(evs) /\ LongsOf(A) \cap LongsOf(B) = {} =>
       /\ Lookup(s.byShort, "k1") = Lookup(fold("evolve", s0, A).byShort, "k1")
       /\ Lookup(s.byShort, "k2") = Lookup(fold("evolve", s0, B).byShort, "k2")
       /\ "k1" \in s.active <=> "k1" \in fold("evolve", s0, A).active
       /\ "k2" \in s.active <=> "k2" \in fold("evolve", s0, B).active
       /\ \A key \in {"k1", "k2"} :
            /\ Lookup(s.byShort, key) = Lookup(fold("evolve", s0, A \o B).byShort, key)
            /\ Lookup(s.byShort, key) = Lookup(fold("evolve", s0, B \o A).byShort, key)

\* A and B are interleaved, B's first event lying between two of A.
C29_Witness ==
  /\ Len(Of(evs, "k1")) = 2 /\ Len(Of(evs, "k2")) = 2 /\ Len(evs) = 4
  /\ LongsOf(Of(evs, "k1")) \cap LongsOf(Of(evs, "k2")) = {}
  /\ Concerns(evs[1], "k1") /\ Concerns(evs[2], "k2") /\ Concerns(evs[3], "k1")
  /\ evs[2].kind = "Created" /\ evs[3].kind = "Expired"

Orderings(n) ==
  {p \in [1..n -> 1..n] : \A i, j \in 1..n : p[i] = p[j] => i = j}

Permuted(events, p) == [i \in 1..Len(events) |-> events[p[i]]]

\* p keeps the events about one short code in their order.
KeepsOrderPerCode(events, p) ==
  \A i, j \in 1..Len(events) :
    /\ i < j
    /\ "short" \in DOMAIN events[p[i]] /\ "short" \in DOMAIN events[p[j]]
    /\ events[p[i]].short = events[p[j]].short
    => p[i] < p[j]

IdsOf(items) == {items[i].id : i \in DOMAIN items}

\* The first item of each id, in order.
FirstById(items) ==
  SelectSeq([i \in DOMAIN items |-> [item |-> items[i], at |-> i]],
            LAMBDA x : \A j \in 1..(x.at - 1) : items[j].id # x.item.id)

FirstEvents(items) ==
  [i \in DOMAIN FirstById(items) |->
     AsEvent(FirstById(items)[i].item.id, FirstById(items)[i].item.n)]

FirstVideos(items) ==
  [id \in IdsOf(items) |->
     [title |-> AsVideoCommand(id,
        (CHOOSE x \in {FirstById(items)[i] : i \in DOMAIN FirstById(items)} :
           x.item.id = id).item.n).title]]

SeenGateExact ==
  /\ gate.acc.applied = Cardinality(IdsOf(gate.fed))
  /\ gate.acc.s = fold("evolve", s0, FirstEvents(gate.fed))

ProcessedGateExact ==
  /\ gate.run.processedCommands = Cardinality(IdsOf(gate.fed))
  /\ gate.run.videos = FirstVideos(gate.fed)

\* C21, as claimed: whatever has been processed of a sequence and of its
\* second copy, each gate has applied one effect per distinct id, that of
\* the id's first item, so the second copy changes nothing.
C21_OneEffectPerId == SeenGateExact /\ ProcessedGateExact

\* C21, amended: the seen-id gate always has; the processed:<id> gate has
\* as long as no more than the time to live of its entries has passed.
C21_OneEffectPerIdWithinTtl ==
  /\ SeenGateExact
  /\ now <= TTL => ProcessedGateExact

\* The second copy of a sequence that repeats an id with another payload
\* has been processed, part of it after time has passed.
C21_Witness ==
  /\ Len(gate.fed) = 3 /\ gate.pos = 3
  /\ gate.fed[1].id = gate.fed[3].id /\ gate.fed[1].n # gate.fed[3].n
  /\ gate.fed[2].id # gate.fed[1].id
  /\ now > 0 /\ now <= TTL

\* ------------------------------------------ properties of concurrent calls
CreatesK1(call) ==
  /\ call.committed
  /\ Len(call.events) = 1
  /\ call.events[1].kind = "Created" /\ call.events[1].short = "k1"

RowCreatesK1(row) == Len(row) = 1 /\ row[1].kind = "Created" /\ row[1].short = "k1"

\* C22: a decision is taken on the snapshot the call was given, whatever
\* other calls have committed since it was taken, so the log can hold two
\* decisions taken on the same stale state.
C22_DecidesOnItsSnapshot ==
  \A k \in Slots : calls[k].decided =>
    calls[k].events = decide(calls[k].s, calls[k].c, calls[k].rndEvt,
                             toISOString(calls[k].ts))

\* Two calls in flight together, given the same snapshot and different
\* command ids, have both committed the creation of the same short code,
\* and the log holds both.
C22_Witness ==
  /\ calls[1].s = calls[2].s
  /\ calls[1].c.id # calls[2].c.id
  /\ CreatesK1(calls[1]) /\ CreatesK1(calls[2])
  /\ calls[2].ev0 = 0 /\ calls[1].ev0 = 0
  /\ Len(db.events) = 2
  /\ RowCreatesK1(db.events[1]) /\ RowCreatesK1(db.events[2])

\* ------------------------------------------------- properties of tenants
EventIds(events) == {events[i].id : i \in DOMAIN events}

\* C23, as claimed: a service leaves an event out of its publishing only
\* if it has itself passed an event of that id to its own bus, whatever the
\* other service has handled.
C23_TenantsIsolated ==
  [][/\ \A k \in Slots :
          PublishSkip(k) => calls[k].events[calls[k].idx].id \in EventIds(invoked)
     /\ Len(other'.skipped) > Len(other.skipped) =>
          other'.skipped[Len(other'.skipped)].id \in EventIds(other.invoked)]_vars

\* ---------------------------------- properties of replay and of the read side
TimeOf(timestamp) == CHOOSE n \in 0..9 : toISOString(n) = timestamp

\* events with e put behind the last event that is not later than it.
RECURSIVE InsertByTime(_, _)
InsertByTime(events, e) ==
  IF events = << >> THEN <<e>>
  ELSE IF TimeOf(events[Len(events)].timestamp) <= TimeOf(e.timestamp)
       THEN Append(events, e)
       ELSE Append(InsertByTime(SubSeq(events, 1, Len(events) - 1), e),
                   events[Len(events)])

RECURSIVE ByTimestamp(_)
ByTimestamp(events) ==
  IF events = << >> THEN << >>
  ELSE InsertByTime(ByTimestamp(SubSeq(events, 1, Len(events) - 1)), events[Len(events)])

UpTo(events, timestamp) ==
  SelectSeq(events, LAMBDA e : TimeOf(e.timestamp) <= TimeOf(timestamp))

\* C24, as claimed: replay() returns evolve folded over every event sent to
\* the store's events table so far, in the order of their timestamps.
C24_ReplayFoldsStoredEvents ==
  es.replay # NoAnswer =>
    es.replay[1].state = fold("evolve", s0, ByTimestamp(es.replay[1].log))

\* C25, as claimed: stateAt(t) returns evolve folded over the stored events
\* whose timestamp is at or before t, in the order of their timestamps.
C25_StateAtFoldsEventsUpTo ==
  es.at # NoAnswer =>
    es.at[1].state =
      fold("evolve", s0, ByTimestamp(UpTo(es.at[1].log, es.at[1].timestamp)))

\* C26, as claimed: syncReadModel() returns project folded over every event
\* the command calls have persisted, in order.
C26_ReadSideRebuilt ==
  cq.sync # NoAnswer => cq.sync[1].view = fold("project", v0, cq.sync[1].log)

\* ------------------------------------------ properties of schema evolution
RECURSIVE FlatMap(_)
FlatMap(events) ==
  IF events = << >> THEN << >>
  ELSE forgetful(Head(events)) \o FlatMap(Tail(events))

HasKind(events, kind) == \E i \in DOMAIN events : events[i].kind = kind

OfKinds(events, kinds) == SelectSeq(events, LAMBDA e : e.kind \in kinds)

\* C31: the state and the view reached over a stream of the extended event
\* type are those reached over the stream with the new variants left out,
\* and over the stream with every kind the reducer has no case for left out.
C31_NewVariantsLeaveNoTrace ==
  /\ st = fold("evolve", s0, FlatMap(evs))
  /\ vw = fold("project", v0, FlatMap(evs))
  /\ st = fold("evolve", s0, OfKinds(evs, {"Created", "Expired"}))
  /\ vw = fold("project", v0, OfKinds(evs, {"Created", "Clicked", "Expired"}))

\* A stream that creates a code, tags it, is told the code is taken and
\* clicks it.
C31_Witness ==
  /\ Len(evs) = 4
  /\ evs[1].kind = "Created" /\ evs[2].kind = "Tagged"
  /\ evs[3].kind = "CustomTaken" /\ evs[4].kind = "Clicked"
  /\ st # s0 /\ vw # v0

\* ------------------------------------------------ properties of pullbackJoin
KeyPairs == {p \in (DOMAIN left) \X (DOMAIN right) : left[p[1]].key = right[p[2]].key}

Earlier(p, q) == p[1] < q[1] \/ (p[1] = q[1] /\ p[2] < q[2])

Rank(p) == 1 + Cardinality({q \in KeyPairs : Earlier(q, p)})

\* C32: pullbackJoin returns one result for each pair of rows with equal
\* keys, in the order of as and then of bs, and nothing else.
C32_ExactlyKeyMatchingPairs ==
  /\ Len(joined) = Cardinality(KeyPairs)
  /\ \A p \in KeyPairs : joined[Rank(p)] = <<left[p[1]], right[p[2]]>>

\* Two rows on each side: some pairs share a key, one row of bs matches
\* nothing, and a key is met by two rows of as.
C32_Witness ==
  /\ Len(left) = 2 /\ Len(right) = 2
  /\ left[1].key = left[2].key /\ left[1] # left[2]
  /\ right[1].key # right[2].key
  /\ Len(joined) = 2

\* --------------------------------------------------- properties of telemetry
\* C33: a wrapped function is called once with the arguments given, and
\* the call settles as the bare call does; two functions wrapped one by
\* one and composed settle as their composition wrapped once.
C33_TelemetryTransparent ==
  /\ tele.kind = "call" =>
       /\ tele.wrapped.out = tele.bare
       /\ tele.wrapped.inner = <<[f |-> tele.f, a |-> tele.a]>>
  /\ tele.kind = "compose" => tele.each.out = tele.once.out

\* The second of two wrapped functions throws on what the first returned.
C33_Witness ==
  /\ tele.kind = "compose"
  /\ tele.f = "inc" /\ tele.g = "guard"
  /\ Len(tele.each.inner) = 2
  /\ ~tele.each.out.ok /\ tele.each.out.error = "odd"

\* ------------------------------------------------- properties of healthCheck
\* C34: no healthCheck call throws; each returns status healthy and the
\* time of the call when the probe succeeded, and status unhealthy, the
\* message of the failure and the time of the call when it failed.
C34_HealthCheckNeverThrows ==
  \A i \in DOMAIN health :
    LET h == health[i] IN
    /\ h.returned.ok
    /\ h.returned.value.timestamp = toISOString(h.at)
    /\ h.probe.ok =>
         h.returned.value.status = "healthy" /\ h.returned.value.error = Undefined
    /\ ~h.probe.ok =>
         /\ h.returned.value.status = "unhealthy"
         /\ h.probe.thrown \in {"Error", "string"} => h.returned.value.error = h.probe.text
         /\ h.probe.thrown = "number" => h.returned.value.error = "503"
         /\ h.probe.thrown = "undefined" => h.returned.value.error = "undefined"

\* A probe that fails with an Error, and later one that succeeds.
C34_Witness ==
  /\ Len(health) = 2
  /\ ~health[1].probe.ok /\ health[1].probe.thrown = "Error"
  /\ health[2].probe.ok /\ health[2].at > health[1].at

\* ------------------------------------------- properties of the cache write
OpsAt(trace, name) == {i \in DOMAIN trace : trace[i].op = name}

\* C35: a handle writes cmd:<id> at most once, after its commit has
\* succeeded and before it publishes; a handle that did not commit (failed
\* validation, cache hit, empty decision, failed persist) does not write
\* it; every entry of the cache expires 3600 s after it was written.
C35_MarkedAfterCommitBeforePublish ==
  /\ \A k \in Slots :
        LET trace == calls[k].trace IN
        /\ Cardinality(OpsAt(trace, "kv.set")) <= 1
        /\ \A i \in OpsAt(trace, "kv.set") :
              /\ \E j \in 1..(i - 1) : trace[j] = Op("commit", TRUE)
              /\ \A j \in 1..(i - 1) : trace[j].op # "publish"
        /\ ~calls[k].committed => OpsAt(trace, "kv.set") = {}
  /\ ~hasKv => kv = EmptyObj
  /\ \A i \in CmdIds :
        KvKey(i) \in DOMAIN kv =>
          /\ CommittedId(i)
          /\ kv[KvKey(i)].value = "1"
          /\ kv[KvKey(i)].expires = (marked[i] + TTL) * 1000
          /\ marked[i] <= now

\* A handle with a cache has committed, written cmd:<id> and published.
C35_Witness ==
  /\ hasKv
  /\ calls[1].pc = "done" /\ calls[1].committed
  /\ calls[1].cmdId \in CmdIds
  /\ OpsAt(calls[1].trace, "kv.set") # {}
  /\ OpsAt(calls[1].trace, "publish") # {}
  /\ KvKey(calls[1].cmdId) \in DOMAIN kv

\* ------------------------------------------ properties of taken short codes
ShortOf(raw) == IF Truthy(raw.custom) THEN raw.custom ELSE genShort(raw.url)

Taken(s, raw) ==
  /\ Truthy(Lookup(s.byShort, ShortOf(raw)))
  /\ Lookup(s.byShort, ShortOf(raw)) # raw.url

\* C36: whatever httpHandle of the URL shortener returns, every short code
\* of the input state still maps to the same long URL; a request for a
\* code that is taken by another URL decides CustomTaken alone, leaves
\* byShort, byLong and active as they were, and, when handle returned, is
\* answered with success = false.
C36_TakenCodeNeverRemapped ==
  \A k \in Slots :
    variant = "handlers" /\ http[k].pc = "returned" /\ http[k].failed # "normalize" =>
      LET s == http[k].s
          out == http[k].out
      IN
      /\ \A short \in DOMAIN s.byShort :
            Lookup(out.state.byShort, short) = s.byShort[short]
      /\ Taken(s, http[k].raw) =>
            /\ calls[k].decided =>
                  /\ Len(calls[k].events) = 1
                  /\ calls[k].events[1].kind = "CustomTaken"
                  /\ calls[k].events[1].custom = ShortOf(http[k].raw)
            /\ out.state.byShort = s.byShort
            /\ out.state.byLong = s.byLong
            /\ out.state.active = s.active
            /\ http[k].failed = "none" =>
                  out.result.success = "false" /\ out.result.short = Undefined

\* A request for k1 with another URL than the one k1 maps to has been
\* committed as CustomTaken and answered.
C36_Witness ==
  \E k \in Slots :
    /\ variant = "handlers"
    /\ http[k].pc = "returned" /\ http[k].failed = "none"
    /\ http[k].raw = RawUrl("http://b", "k1")
    /\ Lookup(http[k].s.byShort, "k1") = "http://a"
    /\ calls[k].committed

\* ------------------------------------------------- properties of retried calls
RowsWithId(i) ==
  {r \in 1..Len(db.events) : \E j \in 1..Len(db.events[r]) : db.events[r][j].id = i}

\* C37, as claimed: with a cache, whatever calls failed and were retried,
\* the event log holds the events decided for a command id at most once.
C37_CommittedAtMostOnce ==
  hasKv => \A i \in CmdIds : Cardinality(RowsWithId(i)) <= 1

\* ---------------------------------------- properties of calls in flight together
HasCommitted(call) ==
  \E j \in 1..Len(call.trace) : call.trace[j].op = "commit" /\ call.trace[j].ok

\* C38, as claimed: with a cache and working ports, of two handle
\* invocations in flight together for one command id at most one commits
\* events to the event log.
C38_OneCommitPerIdInFlight ==
  (hasKv /\ faults = 0 /\ Truthy(calls[1].c.id) /\ calls[1].c.id = calls[2].c.id)
    => ~(HasCommitted(calls[1]) /\ HasCommitted(calls[2]))

\* C39, as claimed: dedupeBy holds an event id as already published only
\* when bus.publish has accepted the event with that id, so that an event
\* whose publish failed is handed to bus.publish again.
C39_SeenOnlyIfPublished == \A i \in seen : DeliveredId(i)

\* ------------------------------------------------ properties of reachable states
\* C40, as claimed: in every state reached from s0 by folding the events
\* decide yields, byShort and byLong are inverse to each other.
C40_MapsMutuallyInverse ==
  /\ \A k \in DOMAIN st.byShort : Lookup(st.byLong, st.byShort[k]) = k
  /\ \A l \in DOMAIN st.byLong : Lookup(st.byShort, st.byLong[l]) = l

====
